---------------------------- MODULE Spec2Model ----------------------------
(***************************************************************************)
(* Model of progeny_core/spinner.py: PortManager, ProcessRegistry and the  *)
(* Progeny orchestrator, together with the host they run on (TCP           *)
(* listeners and worker processes).                                        *)
(*                                                                         *)
(* Progeny.spin is cut into the steps at which another call, a worker or   *)
(* a foreign listener can act: the code holds no lock across them.         *)
(***************************************************************************)
EXTENDS Integers, FiniteSets, Sequences, TLC

(***************************************************************************)
(* Bounds of the model.                                                    *)
(***************************************************************************)
NumPorts == 2
MaxPid == 2
NumCallers == 2

(***************************************************************************)
(* Program constants.                                                      *)
(***************************************************************************)
\* Progeny(port_range=(8080, 8090)): the first port of the range; the model's
\* range holds NumPorts ports
PortStart == 8080
\* register_process(expiry_timestamp=8_000_000_000), here in kiloseconds:
\* TLC integers are 32 bits wide
DefaultExpiry == 8000000

PortRange == PortStart .. (PortStart + NumPorts - 1)
Pids == 1 .. MaxPid
Callers == 1 .. NumCallers
\* identifiers are any str; "" is the falsy one
Identifiers == {"", "alice", "bob"}

\* Python's None, per column type
NoneStr == "None"
NoneInt == -1
\* listeners[p]: nobody listens / a listener that is no worker of ours
Nobody == 0
Foreign == -2

VARIABLES
    registry,        \* rows of table Process
    available_ports, \* PortManager.available_ports
    listeners,       \* port -> who accepts connections on it
    procs,           \* pid -> the OS process with that pid
    pc,              \* caller -> its position in spin
    loc,             \* caller -> the locals of its spin call
    lastAlloc        \* what the last direct allocate_port call gave, until the
                     \* set is recomputed

\* the supervising process, its clock and its cleaning timer
VARIABLES
    now,             \* ProcessRegistry.get_time(), in ticks
    born,            \* identifier -> the time its record was inserted
    supervisor,      \* "running" | "exited"
    configured,      \* interval and timeout were given to ProcessRegistry
    next_sweep,      \* when the current threading.Timer fires
    ret              \* what the last registry call returned or raised

\* the gateway of cli_serve.py and the browser talking to it
VARIABLES
    phase,           \* run(): "provisioning" | "serving" | "crashed"
    instances,       \* app.ctx.instances
    cookies,         \* the browser's progeny_identifier cookie
    exchange         \* the last request, what the gateway asked of the
                     \* backend, and its response

\* PortManager.validate_port_range as a function of its argument
VARIABLES
    port_range_arg,  \* the argument of the call
    validated        \* what the call returned or raised

\* the class methods of ProdigyAdapter as functions of their arguments
VARIABLES
    call,            \* the method called and its arguments
    result           \* what the call returned or raised

\* Progeny.spin with its command specification
VARIABLES
    spun,            \* what the last spin call returned or raised
    served           \* pid -> the arguments prodigy_serve got in that process

\* cleanup_running_processes statement by statement, catch_signal and __del__
VARIABLES
    sweep,           \* the call of cleanup_running_processes under way
    shutdown,        \* catch_signal or __del__: who runs, where it is, and
                     \* what it has done so far
    db_file          \* the file db_name exists

\* scheduled_cleaning in the threading.Timer threads
VARIABLES
    timer            \* where the timer thread is, and the timers pending

progeny_vars == <<registry, available_ports, listeners, procs, pc, loc, lastAlloc>>
sweep_vars == <<now, born, supervisor, configured, next_sweep, ret>>
gateway_vars == <<phase, instances, cookies, exchange>>
range_vars == <<port_range_arg, validated>>
adapter_vars == <<call, result>>
launch_vars == <<spun, served>>
shutdown_vars == <<sweep, shutdown, db_file>>
timer_vars == <<timer>>
\* the functions called on their own, and spin with its arguments
call_vars == <<range_vars, adapter_vars, launch_vars, shutdown_vars, timer_vars>>
ext_vars == <<sweep_vars, gateway_vars, call_vars>>
vars == <<progeny_vars, ext_vars>>

NoAlloc == [err |-> "none", port |-> 0]
NoProc == [state |-> "none", port |-> 0]
NoLoc == [identifier |-> NoneStr, uniquify |-> FALSE, port |-> 0,
          session_name |-> NoneStr, pid |-> 0]

(***************************************************************************)
(* PortManager                                                             *)
(***************************************************************************)
\* connect_ex(('localhost', port)) == 0
is_port_in_use(port) == listeners[port] # Nobody

FreshAvailable == {p \in PortRange : ~is_port_in_use(p)}

\* the ports the for loop does not skip
NotInUse == {p \in PortRange : ~is_port_in_use(p)}

Lowest(S) == CHOOSE p \in S : \A q \in S : p <= q

\* allocate_port as it would be if it trusted available_ports instead of probing
allocate_port_unprobed ==
    IF available_ports \cap PortRange = {}
    THEN [err |-> "NoPorts", port |-> 0, available |-> available_ports]
    ELSE LET port == Lowest(available_ports \cap PortRange) IN
         [err |-> "ok", port |-> port, available |-> available_ports \ {port}]

\* the outcome of allocate_port in the current state
allocate_port ==
    IF NotInUse = {}
    THEN [err |-> "NoPorts", port |-> 0, available |-> available_ports]
    ELSE LET port == Lowest(NotInUse) IN
         IF port \notin available_ports
         THEN [err |-> "KeyError", port |-> 0, available |-> available_ports]
         ELSE [err |-> "ok", port |-> port,
               available |-> available_ports \ {port}]

(***************************************************************************)
(* ProcessRegistry                                                         *)
(***************************************************************************)
Record(identifier, session_name, port, pid, expiry_timestamp) ==
    [identifier |-> identifier, session_name |-> session_name, port |-> port,
     pid |-> pid, expiry_timestamp |-> expiry_timestamp]

\* the table as it would be without UNIQUE on port and pid
InsertAccepted_PrimaryKeyOnly(rows, r) ==
    \A x \in rows : x.identifier # r.identifier

\* the table as it would be without PRIMARY KEY on identifier
InsertAccepted_NoPrimaryKey(rows, r) ==
    \A x \in rows : x.port # r.port /\ x.pid # r.pid

\* identifier text PRIMARY KEY, port int NOT NULL UNIQUE, pid int NOT NULL UNIQUE:
\* whether table `rows` accepts the INSERT of row r
InsertAccepted(rows, r) ==
    \A x \in rows : /\ x.identifier # r.identifier
                   /\ x.port # r.port
                   /\ x.pid # r.pid

\* `if kwargs[k]`: Python truth of a selector value
TruthyStr(v) == v # NoneStr /\ v # ""
TruthyInt(v) == v # NoneInt /\ v # 0

NoSelector == [identifier |-> NoneStr, session_name |-> NoneStr, port |-> NoneInt,
               pid |-> NoneInt, older_than |-> NoneInt, timeout |-> NoneInt,
               operator |-> "OR"]

\* the columns conds_maker writes a condition for
Conds(sel) ==
    {k \in {"identifier", "session_name"} : TruthyStr(sel[k])}
    \cup {k \in {"port", "pid", "older_than"} : TruthyInt(sel[k])}

\* conds_stmt is the empty string
NoConds(sel) == Conds(sel) = {}

\* is_safe as it would be without the guard
is_safe_unguarded(sel, allow_unsafe) == TRUE

is_safe(sel, allow_unsafe) == ~NoConds(sel) \/ allow_unsafe

\* "older_than > ?" names a column table Process does not have
StmtFails(sel) == "older_than" \in Conds(sel)

\* WHERE c1 = ? OR|AND c2 = ? ...; every row without a WHERE
Selected(r, sel) ==
    IF NoConds(sel) THEN TRUE
    ELSE IF sel.operator = "AND"
         THEN \A k \in Conds(sel) : r[k] = sel[k]
         ELSE \E k \in Conds(sel) : r[k] = sel[k]

\* find_process_from_registry on table `rows`: the rows returned (errors apart)
find_process_from_registry(rows, sel, allow_unsafe) ==
    IF ~is_safe(sel, allow_unsafe) THEN {}
    ELSE {r \in rows : Selected(r, sel)}

\* delete_process_from_registry on table `rows`: the table afterwards (errors
\* apart)
delete_process_from_registry(rows, sel, allow_unsafe) ==
    IF ~is_safe(sel, allow_unsafe) THEN rows
    ELSE {r \in rows : ~Selected(r, sel)}

\* the selector of a call made with identifier=... alone
ByIdentifier(identifier) == [NoSelector EXCEPT !.identifier = identifier]

already_has_instance(identifier) ==
    find_process_from_registry(registry, ByIdentifier(identifier), FALSE) # {}

(***************************************************************************)
(* Progeny                                                                 *)
(***************************************************************************)
\* f'{identifier}-{hash(random.random())}': the random part is one token
build_session_name(identifier, uniquify) ==
    IF uniquify THEN identifier \o "-r" ELSE identifier

(***************************************************************************)
(* The host: worker processes and listeners                                *)
(***************************************************************************)
\* the process with this pid is gone: its pid and its port are free again
Exited(ps, X) == [q \in Pids |-> IF q \in X THEN NoProc ELSE ps[q]]
Released(ls, X) == [p \in PortRange |-> IF ls[p] \in X THEN Nobody ELSE ls[p]]

\* a spin call still holds the Process object of pid: a worker that ends is a
\* zombie until register_process asks is_alive()
Held(pid) == \E c \in Callers : pc[c] = "register" /\ loc[c].pid = pid

\* prodigy.serve binds the port of its config
WorkerBind(pid) ==
    /\ procs[pid].state \in {"alive", "signalled"}
    /\ listeners[procs[pid].port] = Nobody
    /\ listeners' = [listeners EXCEPT ![procs[pid].port] = pid]
    /\ UNCHANGED <<registry, available_ports, procs, pc, loc, lastAlloc>>

\* a worker ends: it crashed, could not bind, or obeys SIGTERM
WorkerExit(pid) ==
    /\ procs[pid].state \in {"alive", "signalled"}
    /\ procs' = [procs EXCEPT ![pid] =
                    IF Held(pid) THEN [NoProc EXCEPT !.state = "zombie"]
                    ELSE NoProc]
    /\ listeners' = Released(listeners, {pid})
    /\ UNCHANGED <<registry, available_ports, pc, loc, lastAlloc>>

\* a process that is no worker of ours binds or leaves a port of the range
ForeignBind(p) ==
    /\ listeners[p] = Nobody
    /\ listeners' = [listeners EXCEPT ![p] = Foreign]
    /\ UNCHANGED <<registry, available_ports, procs, pc, loc, lastAlloc>>

ForeignRelease(p) ==
    /\ listeners[p] = Foreign
    /\ listeners' = [listeners EXCEPT ![p] = Nobody]
    /\ UNCHANGED <<registry, available_ports, procs, pc, loc, lastAlloc>>

(***************************************************************************)
(* Progeny.spin, step by step                                              *)
(***************************************************************************)
Raise(c, error) ==
    /\ pc' = [pc EXCEPT ![c] = "idle"]
    /\ loc' = [loc EXCEPT ![c] = NoLoc]

\* the call is made: if self.registry.already_has_instance(identifier):
\*     raise ValueError
SpinCall(c, identifier, uniquify) ==
    /\ pc[c] = "idle"
    /\ IF already_has_instance(identifier)
       THEN UNCHANGED <<pc, loc>>
       ELSE /\ pc' = [pc EXCEPT ![c] = "alloc"]
            /\ loc' = [loc EXCEPT ![c] =
                          [NoLoc EXCEPT !.identifier = identifier,
                                        !.uniquify = uniquify]]
    /\ UNCHANGED <<registry, available_ports, listeners, procs, lastAlloc>>

\* port = self.port_manager.allocate_port(); session_name = ...
SpinAlloc(c) ==
    /\ pc[c] = "alloc"
    /\ LET a == allocate_port IN
       IF a.err = "ok"
       THEN /\ available_ports' = a.available
            /\ pc' = [pc EXCEPT ![c] = "start"]
            /\ loc' = [loc EXCEPT ![c].port = a.port,
                          ![c].session_name =
                              build_session_name(loc[c].identifier, loc[c].uniquify)]
       ELSE /\ Raise(c, a.err)
            /\ UNCHANGED available_ports
    /\ UNCHANGED <<registry, listeners, procs, lastAlloc>>

\* process.start(): the worker gets a pid no process has
SpinStart(c) ==
    /\ pc[c] = "start"
    /\ \E pid \in Pids :
          /\ procs[pid].state = "none"
          /\ procs' = [procs EXCEPT ![pid] =
                          [state |-> "alive", port |-> loc[c].port]]
          /\ loc' = [loc EXCEPT ![c].pid = pid]
    /\ pc' = [pc EXCEPT ![c] = "register"]
    /\ UNCHANGED <<registry, available_ports, listeners, lastAlloc>>

\* process.start() raises OSError: the host starts no process
SpinStartFails(c) ==
    /\ pc[c] = "start"
    /\ Raise(c, "OSError")
    /\ UNCHANGED <<registry, available_ports, listeners, procs, lastAlloc>>

\* self.registry.register_process(identifier, session_name, port, process)
SpinRegister(c) ==
    /\ pc[c] = "register"
    /\ LET l == loc[c]
           row == Record(l.identifier, l.session_name, l.port, l.pid, DefaultExpiry)
       IN
       IF procs[l.pid].state = "zombie"
       THEN \* assert process.is_alive()
            /\ procs' = [procs EXCEPT ![l.pid] = NoProc]
            /\ Raise(c, "AssertionError")
            /\ UNCHANGED <<registry, available_ports, lastAlloc>>
       ELSE IF ~InsertAccepted(registry, row)
       THEN /\ Raise(c, "IntegrityError")
            /\ UNCHANGED <<registry, available_ports, procs, lastAlloc>>
       ELSE /\ registry' = registry \cup {row}
            /\ available_ports' = FreshAvailable
            /\ lastAlloc' = NoAlloc
            /\ pc' = [pc EXCEPT ![c] = "idle"]
            /\ loc' = [loc EXCEPT ![c] = NoLoc]
            /\ UNCHANGED procs
    /\ UNCHANGED listeners

(***************************************************************************)
(* PortManager, called directly                                            *)
(***************************************************************************)
AllocatePort ==
    /\ LET a == allocate_port IN
       IF a.err = "ok"
       THEN /\ available_ports' = a.available
            /\ lastAlloc' = [err |-> "ok", port |-> a.port]
       ELSE \* RuntimeError("No ports available"), or KeyError from set.remove
            /\ lastAlloc' = [err |-> a.err, port |-> 0]
            /\ UNCHANGED available_ports
    /\ UNCHANGED <<registry, listeners, procs, pc, loc>>

UpdateAvailablePorts ==
    /\ available_ports' = FreshAvailable
    /\ lastAlloc' = NoAlloc
    /\ UNCHANGED <<registry, listeners, procs, pc, loc>>

(***************************************************************************)
(* ProcessRegistry, called directly                                        *)
(***************************************************************************)
\* the selectors the calls are made with
Selectors ==
    {ByIdentifier(i) : i \in Identifiers \cup {NoneStr}}
    \cup {[NoSelector EXCEPT !.port = p] : p \in PortRange}
    \cup {[NoSelector EXCEPT !.pid = q] : q \in Pids}

\* register_process(identifier, session_name, port, pid) with a bare pid
RegisterProcess(identifier, session_name, port, pid) ==
    LET row == Record(identifier, session_name, port, pid, DefaultExpiry) IN
    /\ IF InsertAccepted(registry, row)
       THEN /\ registry' = registry \cup {row}
            /\ available_ports' = FreshAvailable
            /\ lastAlloc' = NoAlloc
       ELSE \* sqlite3.IntegrityError
            UNCHANGED <<registry, available_ports, lastAlloc>>
    /\ UNCHANGED <<listeners, procs, pc, loc>>

DeleteProcess(sel, allow_unsafe) ==
    /\ IF is_safe(sel, allow_unsafe) /\ StmtFails(sel)
       THEN \* sqlite3.OperationalError
            UNCHANGED registry
       ELSE registry' = delete_process_from_registry(registry, sel, allow_unsafe)
    /\ UNCHANGED <<available_ports, listeners, procs, pc, loc, lastAlloc>>

\* os.kill(pid, signal.SIGTERM) reached the processes of S
Signalled(ps, S) ==
    [q \in Pids |-> IF q \in S /\ ps[q].state = "alive"
                    THEN [ps[q] EXCEPT !.state = "signalled"] ELSE ps[q]]

\* cleanup_running_processes(allow_unsafe, **sel)
CleanupRunningProcesses(sel, allow_unsafe) ==
    /\ UNCHANGED <<pc, loc>>
    /\ IF is_safe(sel, allow_unsafe) /\ StmtFails(sel)
       THEN \* sqlite3.OperationalError in find_process_from_registry
            UNCHANGED <<registry, available_ports, listeners, procs, lastAlloc>>
       ELSE
       LET records == find_process_from_registry(registry, sel, allow_unsafe)
           targets == {r.pid : r \in records}
           gone == {q \in targets : procs[q].state = "none"}
       IN
       IF gone # {}
       THEN \* ProcessLookupError: the loop stops at the first pid without a
            \* process, in the order the rows came in
            \E S \in SUBSET (targets \ gone) : \E X \in SUBSET S :
                /\ procs' = Exited(Signalled(procs, S),
                                   {q \in X : ~Held(q)})
                /\ listeners' = Released(listeners, {q \in X : ~Held(q)})
                /\ UNCHANGED <<registry, available_ports, lastAlloc>>
       ELSE \* every target signalled; those of X end within the sleeps
            \E X \in SUBSET targets :
                /\ procs' = Exited(Signalled(procs, targets),
                                   {q \in X : ~Held(q)})
                /\ listeners' = Released(listeners, {q \in X : ~Held(q)})
                /\ registry' = delete_process_from_registry(registry, sel, allow_unsafe)
                /\ available_ports' =
                       {p \in PortRange : listeners'[p] = Nobody}
                /\ lastAlloc' = NoAlloc

(***************************************************************************)
(* The system                                                              *)
(***************************************************************************)
\* Progeny.__init__: an empty table, the ports probed once
ProgenyInit ==
    /\ registry = {}
    /\ listeners \in [PortRange -> {Nobody, Foreign}]
    /\ available_ports = {p \in PortRange : listeners[p] = Nobody}
    /\ procs = [q \in Pids |-> NoProc]
    /\ pc = [c \in Callers |-> "idle"]
    /\ loc = [c \in Callers |-> NoLoc]
    /\ lastAlloc = NoAlloc

NoRet == [op |-> "none", sel |-> NoSelector, allow_unsafe |-> FALSE,
          err |-> "none", count |-> 0]

\* no interval and no timeout: no timer, no signal handler
SweepOff ==
    /\ now = 0
    /\ born = [i \in Identifiers |-> NoneInt]
    /\ supervisor = "running"
    /\ configured = FALSE
    /\ next_sweep = NoneInt
    /\ ret = NoRet

\* what requests.get/post was called with; NoBackend: it was not called
NoBackend == [method |-> "none", port |-> 0, path |-> "", session |-> NoneStr]

NoExchange ==
    [endpoint |-> "none", method |-> "none", path |-> "", identifier |-> NoneStr,
     backend |-> NoBackend, served_by |-> Nobody, status |-> 0,
     set_cookie |-> NoneStr, location |-> ""]

\* no gateway in front of the Progeny object
GatewayOff ==
    /\ phase = "off"
    /\ instances = << >>
    /\ cookies = NoneStr
    /\ exchange = NoExchange

\* an argument or a result of validate_port_range: a tuple or a list with
\* its items, a range object with start, stop and step, something else, or
\* the AssertionError raised
Arg(kind, items, start, stop, step) ==
    [kind |-> kind, items |-> items, start |-> start, stop |-> stop, step |-> step]
NoArg == Arg("none", << >>, 0, 0, 1)

\* validate_port_range is not being called
RangeOff ==
    /\ port_range_arg = NoArg
    /\ validated = NoArg

\* a str that may be missing from a dict, or None in it
Absent == "<absent>"
\* a list or dict that may be missing from a dict, or None in it
AbsentItems == [is |-> "absent", items |-> << >>]
NoneItems == [is |-> "None", items |-> << >>]
Items(items) == [is |-> "value", items |-> items]

\* a dict with the keys the adapter reads
Data(name, command, recipe, recipe_args, recipe_kwargs, config) ==
    [name |-> name, command |-> command, recipe |-> recipe,
     recipe_args |-> recipe_args, recipe_kwargs |-> recipe_kwargs,
     config |-> config]
NoData == Data(Absent, Absent, Absent, AbsentItems, AbsentItems, Absent)

NoCall == [fn |-> "none", data |-> NoData, is_prebaked_data |-> FALSE,
           files |-> << >>]
NoResult == [done |-> FALSE, err |-> "none", command |-> NoneStr,
             data |-> NoData, accepted |-> FALSE, prebaked |-> << >>]

\* no method of the adapter is being called
AdapterOff ==
    /\ call = NoCall
    /\ result = NoResult

\* the command specification of spin: command, prebaked, recipe,
\* recipe_args, recipe_kwargs, each None by default
Request(command, prebaked, recipe, recipe_args, recipe_kwargs) ==
    [command |-> command, prebaked |-> prebaked, recipe |-> recipe,
     recipe_args |-> recipe_args, recipe_kwargs |-> recipe_kwargs]
NoSpun == [done |-> FALSE, err |-> "none", identifier |-> NoneStr,
           uniquify |-> FALSE, port |-> 0, session_name |-> NoneStr]
NotServed == [allowed_sessions |-> NoneStr]

\* spin is called without a command specification
LaunchOff ==
    /\ spun = NoSpun
    /\ served = [q \in Pids |-> NotServed]

\* no call of cleanup_running_processes under way
NoSweep == [at |-> "idle", by |-> "none", sel |-> NoSelector,
            allow_unsafe |-> FALSE, records |-> {}, todo |-> {}]

NoShutdown == [by |-> "none", at |-> "none", trace |-> << >>]

ShutdownOff ==
    /\ sweep = NoSweep
    /\ shutdown = NoShutdown
    /\ db_file = TRUE

\* no timer thread runs
NoTimer == [at |-> "none", pending |-> 0]

TimerOff == timer = NoTimer

CallsOff == RangeOff /\ AdapterOff /\ LaunchOff /\ ShutdownOff /\ TimerOff

Init == ProgenyInit /\ SweepOff /\ GatewayOff /\ CallsOff

\* the thread that built the Progeny object
MainCaller == Lowest(Callers)
Idle == \A c \in Callers : pc[c] = "idle"

\* the worker processes
Workers ==
    \/ \E q \in Pids : WorkerBind(q)
    \/ \E q \in Pids : WorkerExit(q)

\* one thread, as in cli_serve.run: a call is made when the call before it
\* has returned or raised
Next ==
    \/ UNCHANGED ext_vars /\ \E i \in Identifiers : SpinCall(MainCaller, i, FALSE)
    \/ UNCHANGED ext_vars /\ SpinAlloc(MainCaller)
    \/ UNCHANGED ext_vars /\ SpinStart(MainCaller)
    \/ UNCHANGED ext_vars /\ SpinStartFails(MainCaller)
    \/ UNCHANGED ext_vars /\ SpinRegister(MainCaller)
    \/ UNCHANGED ext_vars /\ Idle
          /\ \E i \in Identifiers, p \in PortRange, q \in Pids :
                 RegisterProcess(i, i, p, q)
    \/ UNCHANGED ext_vars /\ Idle
          /\ \E sel \in Selectors, u \in BOOLEAN : DeleteProcess(sel, u)
    \/ UNCHANGED ext_vars /\ Idle
          /\ \E sel \in Selectors, u \in BOOLEAN :
                 CleanupRunningProcesses(sel, u)
    \/ UNCHANGED ext_vars /\ Workers

Spec == Init /\ [][Next]_vars

\* several threads inside spin at once
NextConc ==
    \/ UNCHANGED ext_vars /\ \E c \in Callers, i \in Identifiers : SpinCall(c, i, FALSE)
    \/ UNCHANGED ext_vars /\ \E c \in Callers : SpinAlloc(c)
    \/ UNCHANGED ext_vars /\ \E c \in Callers : SpinStart(c)
    \/ UNCHANGED ext_vars /\ \E c \in Callers : SpinStartFails(c)
    \/ UNCHANGED ext_vars /\ \E c \in Callers : SpinRegister(c)
    \/ UNCHANGED ext_vars /\ Workers

SpecConc == Init /\ [][NextConc]_vars

\* PortManager and ProcessRegistry called directly, no worker started
NextApi ==
    \/ UNCHANGED ext_vars /\ AllocatePort
    \/ UNCHANGED ext_vars /\ UpdateAvailablePorts
    \/ UNCHANGED ext_vars
          /\ \E i \in Identifiers, p \in PortRange, q \in Pids :
                 RegisterProcess(i, i, p, q)
    \/ UNCHANGED ext_vars /\ \E sel \in Selectors, u \in BOOLEAN : DeleteProcess(sel, u)
    \/ UNCHANGED ext_vars /\ \E p \in PortRange : ForeignBind(p)
    \/ UNCHANGED ext_vars /\ \E p \in PortRange : ForeignRelease(p)

SpecApi == Init /\ [][NextApi]_vars

(***************************************************************************)
(* The registry over time: calls that report what they returned, the       *)
(* cleaning timer and the signal handlers                                  *)
(***************************************************************************)
\* bound of the clock
MaxTime == 2
\* ProcessRegistry(port_manager, scheduled_cleaning_interval,
\* scheduled_cleaning_timeout), in ticks
Interval == 1
Timeout == 1

\* the identifiers of the people the workers are started for
Users == Identifiers \ {""}

\* seconds since the record of the identifier was inserted
Age(identifier) == now - born[identifier]

\* born, once the rows of table `rows` are all there is
Forget(rows) ==
    [i \in Identifiers |->
        IF \E r \in rows : r.identifier = i THEN born[i] ELSE NoneInt]

\* what a call with this selector raises, "none" if it returns
find_error(sel, allow_unsafe) ==
    IF is_safe(sel, allow_unsafe) /\ StmtFails(sel)
    THEN "OperationalError" ELSE "none"

cleanup_error(sel, allow_unsafe) ==
    IF find_error(sel, allow_unsafe) # "none" THEN find_error(sel, allow_unsafe)
    ELSE IF \E r \in find_process_from_registry(registry, sel, allow_unsafe) :
                procs[r.pid].state = "none"
    THEN "ProcessLookupError" ELSE "none"

Returned(op, sel, allow_unsafe, err, count) ==
    [op |-> op, sel |-> sel, allow_unsafe |-> allow_unsafe, err |-> err,
     count |-> IF err = "none" THEN count ELSE 0]

Supervising == supervisor = "running"

\* records = find_process_from_registry(allow_unsafe, **sel)
FindCall(sel, allow_unsafe) ==
    /\ Supervising /\ Idle
    /\ ret' = Returned("find", sel, allow_unsafe, find_error(sel, allow_unsafe),
                  Cardinality(find_process_from_registry(registry, sel, allow_unsafe)))
    /\ UNCHANGED <<progeny_vars, now, born, supervisor, configured, next_sweep>>
    /\ UNCHANGED <<gateway_vars, call_vars>>

\* delete_process_from_registry(allow_unsafe, **sel); count: the rows deleted
DeleteCall(sel, allow_unsafe) ==
    /\ Supervising /\ Idle
    /\ DeleteProcess(sel, allow_unsafe)
    /\ ret' = Returned("delete", sel, allow_unsafe, find_error(sel, allow_unsafe),
                  Cardinality(registry \ registry'))
    /\ born' = Forget(registry')
    /\ UNCHANGED <<now, supervisor, configured, next_sweep>>
    /\ UNCHANGED <<gateway_vars, call_vars>>

\* n = cleanup_running_processes(allow_unsafe, **sel)
CleanupCall(sel, allow_unsafe) ==
    /\ Supervising /\ Idle
    /\ CleanupRunningProcesses(sel, allow_unsafe)
    /\ ret' = Returned("cleanup", sel, allow_unsafe, cleanup_error(sel, allow_unsafe),
                  Cardinality(find_process_from_registry(registry, sel, allow_unsafe)))
    /\ born' = Forget(registry')
    /\ UNCHANGED <<now, supervisor, configured, next_sweep>>
    /\ UNCHANGED <<gateway_vars, call_vars>>

\* get_time() moves on
Tick ==
    /\ now < MaxTime
    /\ now' = now + 1
    /\ UNCHANGED <<progeny_vars, born, supervisor, configured, next_sweep, ret>>
    /\ UNCHANGED <<gateway_vars, call_vars>>

\* spin in the supervisor; the record is born when register_process commits
SweepSpinCall(identifier) ==
    /\ Supervising
    /\ SpinCall(MainCaller, identifier, FALSE)
    /\ ret' = NoRet
    /\ UNCHANGED <<now, born, supervisor, configured, next_sweep>>
    /\ UNCHANGED <<gateway_vars, call_vars>>

SweepSpinStep ==
    /\ Supervising
    /\ \/ SpinAlloc(MainCaller)
       \/ SpinStart(MainCaller)
       \/ SpinStartFails(MainCaller)
    /\ UNCHANGED <<sweep_vars, gateway_vars, call_vars>>

SweepSpinRegister ==
    /\ Supervising
    /\ SpinRegister(MainCaller)
    /\ born' = IF registry' # registry
               THEN [born EXCEPT ![loc[MainCaller].identifier] = now]
               ELSE born
    /\ UNCHANGED <<now, supervisor, configured, next_sweep, ret>>
    /\ UNCHANGED <<gateway_vars, call_vars>>

\* scheduled_cleaning(interval, timeout), run by the threading.Timer: the
\* sweep is asked for with the keyword `timeout`, then the timer is set again
ScheduledSelector == [NoSelector EXCEPT !.timeout = Timeout]

ScheduledCleaning ==
    /\ Supervising
    /\ configured
    /\ next_sweep # NoneInt
    /\ now >= next_sweep
    /\ CleanupRunningProcesses(ScheduledSelector, FALSE)
    /\ ret' = Returned("scheduled_cleaning", ScheduledSelector, FALSE,
                  cleanup_error(ScheduledSelector, FALSE),
                  Cardinality(find_process_from_registry(registry, ScheduledSelector, FALSE)))
    /\ born' = Forget(registry')
    /\ next_sweep' = now + Interval
    /\ UNCHANGED <<now, supervisor, configured>>
    /\ UNCHANGED <<gateway_vars, call_vars>>

\* SIGTERM, SIGINT or SIGQUIT reaches the supervisor. catch_signal is installed
\* only by setup_scheduled_cleaning, when interval and timeout are given;
\* without it SIGTERM and SIGQUIT end the process where it stands.
Signal ==
    /\ Supervising
    /\ IF configured
       THEN \* catch_signal: stop the timer, cleanup_running_processes(
            \* allow_unsafe=True), os.remove(db), exit(1); the handler runs in
            \* the main thread, whatever it was doing
            /\ next_sweep' = NoneInt
            /\ \E S \in SUBSET Pids :
                  LET records == find_process_from_registry(registry, NoSelector, TRUE)
                      targets == {r.pid : r \in records}
                      gone == {q \in targets : procs[q].state = "none"}
                  IN
                  IF gone # {}
                  THEN \* ProcessLookupError leaves the handler
                       /\ S \subseteq targets \ gone
                       /\ procs' = Signalled(procs, S)
                       /\ supervisor' \in {"running", "exited"}
                       /\ ret' = Returned("catch_signal", NoSelector, TRUE,
                                     "ProcessLookupError", 0)
                       /\ UNCHANGED <<registry, born, available_ports>>
                  ELSE /\ S = targets
                       /\ procs' = Signalled(procs, S)
                       /\ registry' = {}
                       /\ born' = Forget({})
                       /\ available_ports' = FreshAvailable
                       /\ supervisor' = "exited"
                       /\ ret' = Returned("catch_signal", NoSelector, TRUE,
                                     "none", Cardinality(records))
            /\ UNCHANGED <<listeners, lastAlloc>>
       ELSE /\ supervisor' = "exited"
            /\ ret' = Returned("signal", NoSelector, FALSE, "none", 0)
            /\ UNCHANGED <<registry, available_ports, listeners, procs, lastAlloc,
                           born, next_sweep>>
    /\ pc' = [c \in Callers |-> IF supervisor' = "exited" THEN "idle" ELSE pc[c]]
    /\ loc' = [c \in Callers |-> IF supervisor' = "exited" THEN NoLoc ELSE loc[c]]
    /\ UNCHANGED <<now, configured>>
    /\ UNCHANGED <<gateway_vars, call_vars>>

\* the selectors the calls are made with: none, identifier=..., older_than=...
CallSelectors == {NoSelector} \cup {ByIdentifier(i) : i \in Users}
OlderThan(t) == [NoSelector EXCEPT !.older_than = t]

\* nothing but our workers listens on the ports of the range
InitCalls == Init /\ \A p \in PortRange : listeners[p] = Nobody

\* one supervisor without timer: spin calls and registry calls, one at a time
NextCalls ==
    \/ \E i \in Users : SweepSpinCall(i)
    \/ SweepSpinStep
    \/ SweepSpinRegister
    \/ \E sel \in CallSelectors, u \in BOOLEAN : FindCall(sel, u)
    \/ \E sel \in CallSelectors, u \in BOOLEAN : DeleteCall(sel, u)
    \/ \E sel \in CallSelectors, u \in BOOLEAN : CleanupCall(sel, u)
    \/ UNCHANGED ext_vars /\ Workers

SpecCalls == InitCalls /\ [][NextCalls]_vars

\* ProcessRegistry(port_manager, interval, timeout): the first
\* scheduled_cleaning runs in __init__ on the empty table and sets the timer
SweepInit ==
    /\ now = 0
    /\ born = [i \in Identifiers |-> NoneInt]
    /\ supervisor = "running"
    /\ configured \in BOOLEAN
    /\ next_sweep = IF configured THEN Interval ELSE NoneInt
    /\ ret = NoRet

InitSweep ==
    /\ ProgenyInit /\ SweepInit /\ GatewayOff /\ CallsOff
    /\ \A p \in PortRange : listeners[p] = Nobody

NextSweep ==
    \/ \E i \in Users : SweepSpinCall(i)
    \/ SweepSpinStep
    \/ SweepSpinRegister
    \/ CleanupCall(OlderThan(Timeout), FALSE)
    \/ ScheduledCleaning
    \/ Signal
    \/ Tick
    \/ UNCHANGED ext_vars /\ Workers

SpecSweep == InitSweep /\ [][NextSweep]_vars

(***************************************************************************)
(* The gateway: cli/cli_serve.py                                           *)
(***************************************************************************)
\* the keys of config["instances"]; one of them holds a replacement field
GatewayUsers == {"alice", "bob", "a{b}"}
\* an identifier nothing was provisioned for
Stranger == "carol"

\* the replacement fields str.format finds in a session name
Fields(name) == IF name \in {"a{b}", "a{b}-r"} THEN {"b"} ELSE {}

\* the keyword arguments a handler hands to fetch
NoKwargs == [font_file |-> NoneStr, session_id |-> NoneStr]
Given(kwargs) == {k \in DOMAIN kwargs : kwargs[k] # NoneStr}

Route(endpoint, method, path, pathf, kwargs) ==
    [endpoint |-> endpoint, method |-> method, path |-> path, pathf |-> pathf,
     kwargs |-> kwargs]

\* the routes: method, the path the browser asks for, the path template and
\* the keyword arguments handed to fetch. The variable part of a route is one
\* value here (a.ttf, s1).
Routes ==
    { Route("get_root", "get", "/mylayerserver", "/", NoKwargs),
      Route("get_fonts", "get", "/fonts/a.ttf", "/fonts/{font_file}",
            [NoKwargs EXCEPT !.font_file = "a.ttf"]),
      Route("get_index", "get", "/index.html", "/index.html", NoKwargs),
      Route("get_bundle", "get", "/bundle.js", "/bundle.js", NoKwargs),
      Route("get_favicon", "get", "/favicon.ico", "/favicon.ico", NoKwargs),
      Route("get_version", "get", "/version", "/version", NoKwargs),
      Route("get_questions", "get", "/get_questions", "/get_questions", NoKwargs),
      Route("get_project", "get", "/project", "/project", NoKwargs),
      Route("get_project_session", "get", "/project/s1", "/project/{session_id}",
            [NoKwargs EXCEPT !.session_id = "s1"]),
      Route("get_session_questions", "post", "/get_session_questions",
            "/get_session_questions", NoKwargs),
      Route("set_session_aliases", "post", "/set_session_aliases",
            "/set_session_aliases", NoKwargs),
      Route("end_session", "post", "/end_session", "/end_session", NoKwargs),
      Route("validate_answer", "post", "/validate_answer", "/validate_answer",
            NoKwargs),
      Route("give_answers", "post", "/give_answers", "/give_answers", NoKwargs) }

\* pathf.format(**kwargs) on the templates of the routes
format(pathf, kwargs) ==
    IF pathf = "/fonts/{font_file}" THEN "/fonts/" \o kwargs.font_file
    ELSE IF pathf = "/project/{session_id}" THEN "/project/" \o kwargs.session_id
    ELSE pathf

\* set_port_from_cookie: app.ctx.instances.get(identifier, {}).get(...)
ctx_port(identifier) ==
    IF identifier \in DOMAIN instances THEN instances[identifier].port ELSE NoneInt
ctx_session_name(identifier) ==
    IF identifier \in DOMAIN instances THEN instances[identifier].session_name
    ELSE NoneStr

\* get_root: path = f"/?session={session_name}" if the session name is truthy
root_session(identifier) ==
    IF TruthyStr(ctx_session_name(identifier)) THEN ctx_session_name(identifier)
    ELSE NoneStr

\* fetch: pathf.format(**kwargs) raises when the path holds a field that is
\* no keyword argument
format_fails(route, session) ==
    session # NoneStr /\ ~(Fields(session) \subseteq Given(route.kwargs))

\* fetch: the url requests.get/post is called with,
\* f"{protocol}://{host}:{port}/{path}" after path.lstrip("/")
fetch(route, identifier, session) ==
    [method |-> route.method, port |-> ctx_port(identifier),
     path |-> format(route.pathf, route.kwargs), session |-> session]

\* the session name a handler writes into the path it hands to fetch
path_session_every_route(route, identifier) == root_session(identifier)
path_session(route, identifier) ==
    IF route.endpoint = "get_root" THEN root_session(identifier) ELSE NoneStr

\* the browser keeps the cookie a response sets
StoreCookie(response) ==
    cookies' = IF response.set_cookie # NoneStr THEN response.set_cookie
               ELSE cookies

\* the browser sends a request with its cookie: set_port_from_cookie, then
\* the handler of the route
GatewayRequest(route) ==
    LET identifier == cookies
        session == path_session(route, identifier)
        url == fetch(route, identifier, session)
        seen == [NoExchange EXCEPT !.endpoint = route.endpoint,
                                   !.method = route.method,
                                   !.path = route.path,
                                   !.identifier = identifier]
    IN
    /\ phase = "serving"
    /\ exchange' =
          IF format_fails(route, session)
          THEN \* KeyError in str.format: Sanic answers 500
               [seen EXCEPT !.status = 500]
          ELSE IF url.port = NoneInt
          THEN \* requests refuses http://0.0.0.0:None/...: InvalidURL, 500
               [seen EXCEPT !.backend = url, !.status = 500]
          ELSE IF listeners[url.port] = Nobody
          THEN \* ConnectionError, 500
               [seen EXCEPT !.backend = url, !.status = 500]
          ELSE [seen EXCEPT !.backend = url, !.status = 200,
                            !.served_by = listeners[url.port]]
    /\ StoreCookie(exchange')
    /\ UNCHANGED <<phase, instances>>
    /\ UNCHANGED <<progeny_vars, sweep_vars, call_vars>>

\* config["app"].pop("reverse_proxy_path", "")
reverse_proxy_path == ""

\* start_session: the redirect and the cookie it carries
start_session_without_cookie(identifier) ==
    [NoExchange EXCEPT !.status = 302,
                       !.location = reverse_proxy_path \o "/mylayerserver"]
start_session(identifier) ==
    [NoExchange EXCEPT !.status = 302,
                       !.location = reverse_proxy_path \o "/mylayerserver",
                       !.set_cookie = identifier]

\* GET /start_session/<identifier>
StartSession(identifier) ==
    /\ phase = "serving"
    /\ exchange' = [start_session(identifier) EXCEPT
                        !.endpoint = "start_session",
                        !.method = "get",
                        !.path = "/start_session/" \o identifier,
                        !.identifier = cookies]
    /\ StoreCookie(exchange')
    /\ UNCHANGED <<phase, instances>>
    /\ UNCHANGED <<progeny_vars, sweep_vars, call_vars>>

\* run(): progenitor.spin(identifier=identifier, **params) for the keys of
\* config["instances"], in turn; an exception ends run()
RunSpinCall(identifier, uniquify) ==
    /\ phase = "provisioning"
    /\ identifier \notin DOMAIN instances
    /\ SpinCall(MainCaller, identifier, uniquify)
    /\ phase' = IF already_has_instance(identifier) THEN "crashed" ELSE phase
    /\ UNCHANGED <<instances, cookies, exchange>>
    /\ UNCHANGED <<sweep_vars, call_vars>>

RunSpinStep ==
    /\ phase = "provisioning"
    /\ \/ SpinAlloc(MainCaller)
       \/ SpinStart(MainCaller)
       \/ SpinStartFails(MainCaller)
    /\ phase' = IF pc'[MainCaller] = "idle" THEN "crashed" ELSE phase
    /\ UNCHANGED <<instances, cookies, exchange>>
    /\ UNCHANGED <<sweep_vars, call_vars>>

\* spin returns (port, session_name): app.ctx.instances[identifier] = {...}
RunSpinRegister ==
    /\ phase = "provisioning"
    /\ SpinRegister(MainCaller)
    /\ IF registry' # registry
       THEN /\ instances' =
                  (loc[MainCaller].identifier :>
                      [port |-> loc[MainCaller].port,
                       session_name |-> loc[MainCaller].session_name])
                  @@ instances
            /\ UNCHANGED phase
       ELSE /\ phase' = "crashed"
            /\ UNCHANGED instances
    /\ UNCHANGED <<cookies, exchange>>
    /\ UNCHANGED <<sweep_vars, call_vars>>

\* app.run(**config["app"])
RunServe ==
    /\ phase = "provisioning"
    /\ Idle
    /\ phase' = "serving"
    /\ UNCHANGED <<instances, cookies, exchange>>
    /\ UNCHANGED <<progeny_vars, sweep_vars, call_vars>>

InitGateway ==
    /\ ProgenyInit /\ SweepOff /\ CallsOff
    /\ \A p \in PortRange : listeners[p] = Nobody
    /\ phase = "provisioning"
    /\ instances = << >>
    /\ cookies = NoneStr
    /\ exchange = NoExchange

NextGateway ==
    \/ \E i \in GatewayUsers, u \in BOOLEAN : RunSpinCall(i, u)
    \/ RunSpinStep
    \/ RunSpinRegister
    \/ RunServe
    \/ \E route \in Routes : GatewayRequest(route)
    \/ \E i \in GatewayUsers \cup {Stranger} : StartSession(i)
    \/ UNCHANGED ext_vars /\ Workers

SpecGateway == InitGateway /\ [][NextGateway]_vars

(***************************************************************************)
(* PortManager.validate_port_range                                         *)
(***************************************************************************)
\* the largest integer an argument holds
MaxPort == 4
PortValues == -1 .. MaxPort
Steps == {-1, 1, 2}

PyRange(start, stop, step) == Arg("range", << >>, start, stop, step)
InvalidPortRange == Arg("AssertionError", << >>, 0, 0, 1)

\* len(range(start, stop, step))
range_len(r) ==
    IF r.step > 0
    THEN IF r.start < r.stop THEN ((r.stop - r.start - 1) \div r.step) + 1 ELSE 0
    ELSE IF r.start > r.stop THEN ((r.start - r.stop - 1) \div (0 - r.step)) + 1
         ELSE 0

\* range(*port_range)
range_of_inclusive(items) == PyRange(items[1], items[2] + 1, 1)
range_of(items) == PyRange(items[1], items[2], 1)

validate_port_range(port_range) ==
    LET r == IF port_range.kind \in {"tuple", "list"}
             THEN IF Len(port_range.items) = 2 THEN range_of(port_range.items)
                  ELSE InvalidPortRange
             ELSE IF port_range.kind = "range" /\ port_range.start > 0
                  THEN port_range
                  ELSE InvalidPortRange
    IN IF r # InvalidPortRange /\ range_len(r) > 1 THEN r ELSE InvalidPortRange

\* the arguments: tuples and lists of up to three integers, range objects,
\* and a value of another type
PortRangeArgs ==
    {Arg(kind, items, 0, 0, 1) :
        kind \in {"tuple", "list"},
        items \in UNION {[1 .. n -> PortValues] : n \in 0 .. 3}}
    \cup {PyRange(start, stop, step) :
            start \in PortValues, stop \in PortValues, step \in Steps}
    \cup {Arg("other", << >>, 0, 0, 1)}

ValidatePortRange ==
    /\ port_range_arg # NoArg
    /\ validated = NoArg
    /\ validated' = validate_port_range(port_range_arg)
    /\ UNCHANGED port_range_arg
    /\ UNCHANGED <<progeny_vars, sweep_vars, gateway_vars, adapter_vars,
                   launch_vars, shutdown_vars, timer_vars>>

InitRange ==
    /\ ProgenyInit /\ SweepOff /\ GatewayOff /\ AdapterOff /\ LaunchOff
    /\ ShutdownOff /\ TimerOff
    /\ port_range_arg \in PortRangeArgs
    /\ validated = NoArg

NextRange == ValidatePortRange

SpecRange == InitRange /\ [][NextRange]_vars

(***************************************************************************)
(* ProdigyAdapter                                                          *)
(***************************************************************************)
\* the most items of recipe_kwargs, and the most files of a directory
MaxKwargs == 2
MaxFiles == 2

\* one item of recipe_kwargs: the key is `dashes` times "-" and a word, the
\* value a str or a bool
Kw(dashes, word, kind, text, flag) ==
    [dashes |-> dashes, word |-> word, kind |-> kind, text |-> text, flag |-> flag]

RECURSIVE Dashes(_)
Dashes(n) == IF n = 0 THEN "" ELSE "-" \o Dashes(n - 1)
KeyText(kw) == Dashes(kw.dashes) \o kw.word

\* k.startswith('--')
startswith_dashes(kw) == kw.dashes >= 2

\* ' '.join(recipe_args)
RECURSIVE join(_)
join(args) ==
    IF args = << >> THEN ""
    ELSE IF Len(args) = 1 THEN Head(args)
    ELSE Head(args) \o " " \o join(Tail(args))

\* a list, a tuple or a dict that is not None and not empty
TruthyItems(v) == v.is = "value" /\ v.items # << >>

\* the body of the loop over recipe_kwargs.items()
isinstance_bool(kw) == kw.kind = "bool"
append_kwarg(command, kw) ==
    LET k == IF ~startswith_dashes(kw) THEN "--" \o KeyText(kw) ELSE KeyText(kw)
        v == IF isinstance_bool(kw) THEN "" ELSE " " \o kw.text
    IN command \o " " \o k \o v

RECURSIVE append_kwargs(_, _)
append_kwargs(command, kws) ==
    IF kws = << >> THEN command
    ELSE append_kwargs(append_kwarg(command, Head(kws)), Tail(kws))

Returns(command) == [err |-> "none", command |-> command]
Raises(error) == [err |-> error, command |-> NoneStr]

parse_command(kwargs) ==
    IF kwargs.command # Absent THEN Returns(kwargs.command)
    ELSE IF kwargs.recipe = Absent THEN Raises("KeyError")
    ELSE IF ~(TruthyItems(kwargs.recipe_args) \/ TruthyItems(kwargs.recipe_kwargs))
    THEN Raises("AssertionError")
    ELSE LET recipe == kwargs.recipe
             with_args == IF TruthyItems(kwargs.recipe_args)
                          THEN recipe \o " " \o join(kwargs.recipe_args.items)
                          ELSE recipe
         IN Returns(IF TruthyItems(kwargs.recipe_kwargs)
                    THEN append_kwargs(with_args, kwargs.recipe_kwargs.items)
                    ELSE with_args)

\* the values of the keys
Names == {Absent, "p"}
Commands == {Absent, NoneStr, "textcat abc"}
Recipes == {Absent, NoneStr, "textcat"}
ArgLists ==
    {AbsentItems, NoneItems, Items(<< >>), Items(<<"abc">>),
     Items(<<"abc", "myfile.jsonl">>)}
KwItems ==
    {Kw(dashes, word, "str", "jsonl", FALSE) : dashes \in {0, 2}, word \in {"loader", "F"}}
    \cup {Kw(dashes, word, "bool", "", flag) :
            dashes \in {0, 2}, word \in {"loader", "F"}, flag \in BOOLEAN}
\* the keys of a dict differ
KwDicts ==
    {AbsentItems, NoneItems}
    \cup {Items(kws) :
            kws \in {q \in UNION {[1 .. n -> KwItems] : n \in 0 .. MaxKwargs} :
                        \A i, j \in DOMAIN q :
                            i # j => KeyText(q[i]) # KeyText(q[j])}}
Datas ==
    {Data(name, command, recipe, recipe_args, recipe_kwargs, Absent) :
        name \in Names, command \in Commands, recipe \in Recipes,
        recipe_args \in ArgLists, recipe_kwargs \in KwDicts}

ParseCommand ==
    /\ call.fn = "parse_command"
    /\ result = NoResult
    /\ LET got == parse_command(call.data) IN
       result' = [NoResult EXCEPT !.done = TRUE, !.err = got.err,
                                  !.command = got.command]
    /\ UNCHANGED call
    /\ UNCHANGED <<progeny_vars, sweep_vars, gateway_vars, range_vars,
                   launch_vars, shutdown_vars, timer_vars>>

\* key in data / data.get(key) is None
HasKey(data, key) ==
    IF key \in {"recipe_args", "recipe_kwargs"} THEN data[key].is # "absent"
    ELSE data[key] # Absent
IsNone(data, key) ==
    IF key \in {"recipe_args", "recipe_kwargs"} THEN data[key].is # "value"
    ELSE data[key] \in {Absent, NoneStr}

are_args_none(data, args) == \A x \in args : IsNone(data, x)

is_unambiguous(data, schema) ==
    IF schema = "prebaked"
    THEN are_args_none(data, {"command", "recipe", "recipe_args", "recipe_kwargs"})
    ELSE IF schema = "command"
    THEN are_args_none(data, {"recipe", "recipe_args", "recipe_kwargs"})
    ELSE IF schema = "recipe"
    THEN are_args_none(data, {"command"})
    ELSE FALSE

\* what yaml.safe_load gave: a mapping, None for an empty document, a list
Document(kind, data) == [kind |-> kind, data |-> data]

Rejected == [err |-> "none", accepted |-> FALSE, data |-> NoData]
Accepted(data) == [err |-> "none", accepted |-> TRUE, data |-> data]
Aborted(error) == [err |-> error, accepted |-> FALSE, data |-> NoData]

\* `key in data` raises TypeError for None, is False for a list of mappings
ensure_unambiguity(doc, is_prebaked_data) ==
    IF doc.kind = "empty" THEN Aborted("TypeError")
    ELSE IF doc.kind = "list" THEN Rejected
    ELSE LET data == doc.data IN
         IF is_prebaked_data /\ ~HasKey(data, "name") THEN Rejected
         ELSE IF HasKey(data, "command")
         THEN IF is_unambiguous(data, "command") THEN Accepted(data) ELSE Rejected
         ELSE IF HasKey(data, "recipe")
         THEN IF is_unambiguous(data, "recipe") THEN Accepted(data) ELSE Rejected
         ELSE Rejected

\* a file of the directory: its name does not end in .yml, yaml cannot parse
\* it, or it holds a document
File(kind, data) == [kind |-> kind, data |-> data]

try_load_prebaked(file) ==
    IF file.kind = "not_yml" THEN Rejected
    ELSE IF file.kind = "unparsable" THEN Rejected
    ELSE ensure_unambiguity(Document(file.kind, file.data), TRUE)

\* (name, command, config)
parse_prebaked(data) ==
    LET got == parse_command(data) IN
    [err |-> got.err, name |-> data.name, command |-> got.command,
     config |-> IF data.config = Absent THEN "{}" ELSE data.config]

\* the loop over the files of os.walk, o being the dict so far
RECURSIVE load_prebaked_projects(_, _)
load_prebaked_projects(files, o) ==
    IF files = << >> THEN [err |-> "none", prebaked |-> o]
    ELSE LET data == try_load_prebaked(Head(files)) IN
         IF data.err # "none" THEN [err |-> data.err, prebaked |-> << >>]
         ELSE IF ~data.accepted THEN load_prebaked_projects(Tail(files), o)
         ELSE LET t == parse_prebaked(data.data) IN
              IF t.err # "none" THEN [err |-> t.err, prebaked |-> << >>]
              ELSE load_prebaked_projects(
                       Tail(files),
                       (t.name :> [command |-> t.command, config |-> t.config])
                           @@ o)

\* the mappings of the template files, and the files
TemplateDatas ==
    {Data(name, command, recipe, recipe_args, AbsentItems, config) :
        name \in {Absent, "p", "q"}, command \in {Absent, "textcat abc"},
        recipe \in {Absent, "textcat"},
        recipe_args \in {AbsentItems, Items(<<"abc">>)},
        config \in {Absent, "{feed_overlap: true}"}}
Files ==
    {File(kind, NoData) : kind \in {"not_yml", "unparsable", "empty", "list"}}
    \cup {File("mapping", data) : data \in TemplateDatas}
Directories == UNION {[1 .. n -> Files] : n \in 0 .. MaxFiles}

EnsureUnambiguity ==
    /\ call.fn = "ensure_unambiguity"
    /\ result = NoResult
    /\ LET got == ensure_unambiguity(Document("mapping", call.data),
                                     call.is_prebaked_data)
       IN result' = [NoResult EXCEPT !.done = TRUE, !.err = got.err,
                                     !.accepted = got.accepted,
                                     !.data = got.data]
    /\ UNCHANGED call
    /\ UNCHANGED <<progeny_vars, sweep_vars, gateway_vars, range_vars,
                   launch_vars, shutdown_vars, timer_vars>>

LoadPrebakedProjects ==
    /\ call.fn = "load_prebaked_projects"
    /\ result = NoResult
    /\ LET got == load_prebaked_projects(call.files, << >>) IN
       result' = [NoResult EXCEPT !.done = TRUE, !.err = got.err,
                                  !.prebaked = got.prebaked]
    /\ UNCHANGED call
    /\ UNCHANGED <<progeny_vars, sweep_vars, gateway_vars, range_vars,
                   launch_vars, shutdown_vars, timer_vars>>

Calls ==
    {[NoCall EXCEPT !.fn = "parse_command", !.data = data] : data \in Datas}
    \cup {[NoCall EXCEPT !.fn = "ensure_unambiguity", !.data = data,
                         !.is_prebaked_data = b] :
            data \in Datas, b \in BOOLEAN}
    \cup {[NoCall EXCEPT !.fn = "load_prebaked_projects", !.files = files] :
            files \in Directories}

InitAdapter ==
    /\ ProgenyInit /\ SweepOff /\ GatewayOff /\ RangeOff /\ LaunchOff
    /\ ShutdownOff /\ TimerOff
    /\ \A p \in PortRange : listeners[p] = Nobody
    /\ call \in Calls
    /\ result = NoResult

NextAdapter ==
    \/ ParseCommand
    \/ EnsureUnambiguity
    \/ LoadPrebakedProjects

SpecAdapter == InitAdapter /\ [][NextAdapter]_vars

(***************************************************************************)
(* Progeny.spin with its command specification                             *)
(***************************************************************************)
\* self.adapter.prebaked: the templates load_prebaked_projects found
Prebaked == "p" :> [command |-> "textcat p", config |-> "{}"]

\* the local is_unambiguous: all([x is None for x in args])
AllNoneStr(values) == \A v \in values : v = NoneStr
AllNoneItems(values) == \A v \in values : v.is = "None"

\* (command, config), config left out: it is handed to the worker as it is
get_command_and_config(req) ==
    IF TruthyStr(req.command)
    THEN IF /\ AllNoneStr({req.prebaked, req.recipe})
            /\ AllNoneItems({req.recipe_args, req.recipe_kwargs})
         THEN Returns(req.command) ELSE Raises("AssertionError")
    ELSE IF TruthyStr(req.prebaked)
    THEN IF ~(/\ AllNoneStr({req.command, req.recipe})
              /\ AllNoneItems({req.recipe_args, req.recipe_kwargs}))
         THEN Raises("AssertionError")
         ELSE IF req.prebaked \notin DOMAIN Prebaked THEN Raises("KeyError")
         ELSE Returns(Prebaked[req.prebaked].command)
    ELSE IF TruthyStr(req.recipe)
    THEN IF ~AllNoneStr({req.prebaked, req.command}) THEN Raises("AssertionError")
         ELSE parse_command(
                  Data(Absent, Absent, req.recipe, req.recipe_args,
                       req.recipe_kwargs, Absent))
    ELSE Returns(req.command)

\* prodigy_serve: if env and session_name:
\*     env['PRODIGY_ALLOWED_SESSIONS'] = session_name
prodigy_serve(session_name) ==
    [allowed_sessions |-> IF TruthyStr(session_name) THEN session_name
                          ELSE NoneStr]

\* the identifiers spin is called with: the falsy one and another
LaunchUsers == {"", "alice"}

Requests ==
    {Request(command, prebaked, recipe, recipe_args, NoneItems) :
        command \in {NoneStr, "textcat abc"},
        prebaked \in {NoneStr, "p", "q"},
        recipe \in {NoneStr, "textcat"},
        recipe_args \in {NoneItems, Items(<<"abc">>)}}

\* spin returned (port, session_name) / spin raised
Spun(identifier, uniquify, port, session_name) ==
    [done |-> TRUE, err |-> "none", identifier |-> identifier,
     uniquify |-> uniquify, port |-> port, session_name |-> session_name]
SpinRaised(error) == [NoSpun EXCEPT !.done = TRUE, !.err = error]

\* spin(identifier, **req, uniquify=uniquify) is called:
\* get_command_and_config, then already_has_instance
LaunchCall(identifier, req, uniquify) ==
    LET got == get_command_and_config(req) IN
    /\ pc[MainCaller] = "idle"
    /\ IF got.err # "none"
       THEN /\ spun' = SpinRaised(got.err)
            /\ UNCHANGED progeny_vars
       ELSE /\ SpinCall(MainCaller, identifier, uniquify)
            /\ spun' = IF already_has_instance(identifier)
                       THEN SpinRaised("ValueError") ELSE NoSpun
    /\ UNCHANGED served
    /\ UNCHANGED <<sweep_vars, gateway_vars, range_vars, adapter_vars,
                   shutdown_vars, timer_vars>>

\* allocate_port, build_session_name
LaunchAlloc ==
    /\ SpinAlloc(MainCaller)
    /\ spun' = IF pc'[MainCaller] = "idle" THEN SpinRaised("RuntimeError")
               ELSE spun
    /\ UNCHANGED served
    /\ UNCHANGED <<sweep_vars, gateway_vars, range_vars, adapter_vars,
                   shutdown_vars, timer_vars>>

\* get_process(command, config, session_name); process.start(): the child
\* runs prodigy_serve(command, config, env, session_name)
LaunchStart ==
    /\ SpinStart(MainCaller)
    /\ served' = [served EXCEPT ![loc'[MainCaller].pid] =
                      prodigy_serve(loc[MainCaller].session_name)]
    /\ UNCHANGED spun
    /\ UNCHANGED <<sweep_vars, gateway_vars, range_vars, adapter_vars,
                   shutdown_vars, timer_vars>>

LaunchStartFails ==
    /\ SpinStartFails(MainCaller)
    /\ spun' = SpinRaised("OSError")
    /\ UNCHANGED served
    /\ UNCHANGED <<sweep_vars, gateway_vars, range_vars, adapter_vars,
                   shutdown_vars, timer_vars>>

\* register_process; return (port, session_name)
LaunchRegister ==
    LET l == loc[MainCaller] IN
    /\ SpinRegister(MainCaller)
    /\ spun' = IF registry' # registry
               THEN Spun(l.identifier, l.uniquify, l.port, l.session_name)
               ELSE SpinRaised(IF procs[l.pid].state = "zombie"
                               THEN "AssertionError" ELSE "IntegrityError")
    /\ UNCHANGED served
    /\ UNCHANGED <<sweep_vars, gateway_vars, range_vars, adapter_vars,
                   shutdown_vars, timer_vars>>

\* the worker processes; what a process was started with goes with it
LaunchWorkers ==
    /\ Workers
    /\ served' = [q \in Pids |-> IF procs'[q].state = "none" THEN NotServed
                                 ELSE served[q]]
    /\ UNCHANGED spun
    /\ UNCHANGED <<sweep_vars, gateway_vars, range_vars, adapter_vars,
                   shutdown_vars, timer_vars>>

InitLaunch ==
    /\ ProgenyInit /\ SweepOff /\ GatewayOff /\ CallsOff
    /\ \A p \in PortRange : listeners[p] = Nobody

NextLaunch ==
    \/ \E i \in LaunchUsers, req \in Requests, u \in BOOLEAN : LaunchCall(i, req, u)
    \/ LaunchAlloc
    \/ LaunchStart
    \/ LaunchStartFails
    \/ LaunchRegister
    \/ LaunchWorkers

SpecLaunch == InitLaunch /\ [][NextLaunch]_vars

(***************************************************************************)
(* Properties                                                              *)
(***************************************************************************)
HasRecord(identifier) == \E r \in registry : r.identifier = identifier
Running(q) == procs[q].state \in {"alive", "signalled"}

\* C1: in every state reached through spin, register_process,
\* delete_process_from_registry and cleanup_running_processes calls the
\* registry holds at most one record per identifier, per port and per pid.
C1_UniqueRecords ==
    \A r1, r2 \in registry :
        (r1.identifier = r2.identifier \/ r1.port = r2.port \/ r1.pid = r2.pid)
            => r1 = r2

\* a spin call is about to insert a row whose port or pid a record already
\* holds, under another identifier
C1_Witness ==
    /\ pc[MainCaller] = "register"
    /\ \E r \in registry :
          /\ r.identifier # loc[MainCaller].identifier
          /\ r.port = loc[MainCaller].port \/ r.pid = loc[MainCaller].pid

\* C2: when two spin calls for the same identifier interleave, it never
\* happens that both pass the already_has_instance check and both start a
\* worker.
C2_OneWorkerPerIdentifier ==
    \A c1, c2 \in Callers :
        (/\ c1 # c2
         /\ pc[c1] = "register"
         /\ pc[c2] = "register")
            => loc[c1].identifier # loc[c2].identifier

\* C3: when spin calls for different identifiers interleave, no two workers
\* are started with the same allocated port.
C3_NoPortHandedTwice ==
    \A q1, q2 \in Pids :
        (q1 # q2 /\ Running(q1) /\ Running(q2))
            => procs[q1].port # procs[q2].port

\* C4: the round trip of an identifier. A spin that succeeds gives a port of
\* the range and leaves exactly one record of the identifier, carrying the
\* port and the session name; a spin for an identifier that has a record
\* raises the duplicate-session error; cleanup_running_processes(
\* identifier=..., allow_unsafe=True) completes and removes the record, so that
\* a third spin is not refused.
C4_RoundTrip ==
    [][\A i \in Identifiers :
        LET c == MainCaller
            sel == ByIdentifier(i)
        IN
        /\ (SpinRegister(c) /\ loc[c].identifier = i /\ registry' # registry)
              => /\ loc[c].port \in PortRange
                 /\ {r \in registry' : r.identifier = i} =
                       {Record(i, loc[c].session_name, loc[c].port, loc[c].pid,
                               DefaultExpiry)}
        /\ (SpinCall(c, i, FALSE) /\ HasRecord(i)) => pc'[c] = "idle"
        /\ (Idle /\ HasRecord(i))
              => ENABLED (/\ CleanupRunningProcesses(sel, TRUE)
                          /\ \A r \in registry' : r.identifier # i)
      ]_vars

\* C5: spin for an identifier that has a record raises the duplicate-session
\* error before a port is allocated and before a process is started; the
\* registry and the available ports are as before the call.
C5_DuplicateRejectedFirst ==
    [][\A i \in Identifiers :
        (SpinCall(MainCaller, i, FALSE) /\ HasRecord(i))
            => /\ pc'[MainCaller] = "idle"
               /\ UNCHANGED <<registry, available_ports, procs>>
      ]_vars

\* C6: when spin raises after allocate_port has returned a port and before
\* register_process has committed, the port is back in the available set.
C6_PortReleasedOnFailure ==
    [][\A c \in Callers :
        (/\ pc[c] \in {"start", "register"}
         /\ pc'[c] = "idle"
         /\ registry' = registry)
            => loc[c].port \in available_ports'
      ]_vars

\* the step is a direct allocate_port call that returned a port
Allocated == AllocatePort /\ lastAlloc'.err = "ok"

\* C7: allocate_port only returns a port of the configured range that the
\* live probe reports as not in use at the call.
C7_AllocatedPortFree ==
    [][Allocated =>
          /\ lastAlloc'.port \in PortRange
          /\ ~is_port_in_use(lastAlloc'.port)
      ]_vars

\* allocate_port skipped a port in use and returned a higher one
C7_Witness ==
    /\ lastAlloc.err = "ok"
    /\ \E p \in PortRange : p < lastAlloc.port /\ is_port_in_use(p)

\* C8: two successive allocate_port calls with no release between them, made
\* while a second port of the range is free, both succeed and return
\* distinct ports.
C8_SuccessiveAllocationsDistinct ==
    [][(/\ AllocatePort
        /\ lastAlloc.err = "ok"
        /\ \E p \in available_ports \ {lastAlloc.port} : ~is_port_in_use(p))
            => /\ lastAlloc'.err = "ok"
               /\ lastAlloc'.port # lastAlloc.port
      ]_vars

\* C9: allocate_port returns the lowest port of the range that is not in use
\* and removes exactly that port from the available set; when every port is
\* in use it fails with the no-ports error and leaves the set as it is.
C9_LowestFreePort ==
    [][(AllocatePort /\ lastAlloc' # lastAlloc) =>
          IF \E p \in PortRange : ~is_port_in_use(p)
          THEN LET low == Lowest({p \in PortRange : ~is_port_in_use(p)}) IN
               /\ lastAlloc' = [err |-> "ok", port |-> low]
               /\ available_ports' = available_ports \ {low}
          ELSE /\ lastAlloc'.err = "NoPorts"
               /\ available_ports' = available_ports
      ]_vars

\* C10: register_process fails, leaving the registry as it is, whenever the
\* identifier, the port or the pid already appears in a record; after
\* delete_process_from_registry(identifier=id) a register_process with that
\* identifier (and a port and a pid no record holds) succeeds.
C10_RegisterAfterDelete ==
    \A i \in Identifiers, p \in PortRange, q \in Pids :
        LET row == Record(i, i, p, q, DefaultExpiry)
            after == delete_process_from_registry(registry, ByIdentifier(i), FALSE)
        IN
        /\ (\E r \in registry :
               r.identifier = i \/ r.port = p \/ r.pid = q)
              => ~InsertAccepted(registry, row)
        /\ (\A r \in after : r.port # p /\ r.pid # q)
              => InsertAccepted(after, row)

\* C11: with an empty selector and allow_unsafe false,
\* find_process_from_registry returns no record, delete_process_from_registry
\* removes no record, and cleanup_running_processes signals no process and
\* returns 0; the registry is as it was.
C11_EmptySelectorIsNoOp ==
    [][/\ FindCall(NoSelector, FALSE)
            => ret'.err = "none" /\ ret'.count = 0 /\ registry' = registry
       /\ DeleteCall(NoSelector, FALSE)
            => ret'.err = "none" /\ registry' = registry
       /\ CleanupCall(NoSelector, FALSE)
            => /\ ret'.err = "none" /\ ret'.count = 0
               /\ registry' = registry
               /\ procs' = procs
      ]_vars

\* cleanup_running_processes() has returned 0 while a registered worker runs
C11_Witness ==
    /\ ret = Returned("cleanup", NoSelector, FALSE, "none", 0)
    /\ \E r \in registry : procs[r.pid].state = "alive"

\* C12: cleanup_running_processes(older_than=T) terminates and removes
\* exactly the records whose age exceeds T and leaves every younger record,
\* and its worker, as they were.
C12_SweepByAge ==
    [][CleanupCall(OlderThan(Timeout), FALSE) =>
          /\ registry' = {r \in registry : Age(r.identifier) <= Timeout}
          /\ \A r \in registry :
                IF Age(r.identifier) > Timeout
                THEN procs'[r.pid].state # "alive"
                ELSE procs'[r.pid] = procs[r.pid]
      ]_vars

\* C13: with interval and timeout configured, a worker provisioned by spin
\* whose age exceeds the timeout is terminated and its record removed by the
\* scheduled sweep. Every sweep asks for the same thing, so the worker is
\* eventually reclaimed only if the sweep that runs when it is overdue
\* reclaims it: that is stated here, of every run of scheduled_cleaning.
C13_ScheduledSweepReclaims ==
    [][ScheduledCleaning =>
          \A r \in registry :
              Age(r.identifier) > Timeout
                => /\ r \notin registry'
                   /\ procs'[r.pid].state # "alive"
      ]_vars

\* C14: when SIGTERM, SIGINT or SIGQUIT ends the supervisor, one unsafe full
\* sweep has run first: every worker that was in the registry has been sent
\* the termination signal and no record remains, whether or not interval and
\* timeout were configured.
C14_SweepBeforeExit ==
    [][(Signal /\ supervisor' = "exited") =>
          /\ registry' = {}
          /\ \A r \in registry : procs'[r.pid].state # "alive"
      ]_vars

\* C15: a sweep whose selector matches a record whose process is dead
\* completes and removes every matched record.
C15_DeadPidIsSwept ==
    [][\A sel \in CallSelectors, u \in BOOLEAN :
          LET matched == find_process_from_registry(registry, sel, u) IN
          (/\ CleanupCall(sel, u)
           /\ \E r \in matched : procs[r.pid].state = "none")
             => /\ ret'.err = "none"
                /\ registry' = registry \ matched
      ]_vars

\* the endpoints that relay to a backend
Proxied == {route.endpoint : route \in Routes}

\* C16: a gateway request whose cookie is missing or names an identifier
\* with no provisioned instance gets a not-found answer, and no backend
\* request is issued to a URL built with port None.
C16_UnknownCookieNotFound ==
    (exchange.endpoint \in Proxied /\ exchange.identifier \notin DOMAIN instances)
        => /\ exchange.status = 404
           /\ exchange.backend = NoBackend

\* C17: a gateway request whose cookie names a provisioned identifier is
\* relayed with its method and its path unchanged to the port spin returned
\* for that identifier, the port of its registry record, and to no other.
C17_RelayedToOwnPort ==
    (exchange.endpoint \in Proxied /\ exchange.identifier \in DOMAIN instances)
        => /\ exchange.backend # NoBackend
           /\ exchange.backend.method = exchange.method
           /\ exchange.backend.path = exchange.path
           /\ exchange.backend.port = instances[exchange.identifier].port
           /\ \A i \in DOMAIN instances \ {exchange.identifier} :
                 exchange.backend.port # instances[i].port

\* C18: a backend URL carries the session name as a query parameter for the
\* root-document request only, and then it is the session name of the
\* identifier in the cookie; the URL of every other proxied path carries no
\* session parameter.
C18_SessionOnRootOnly ==
    exchange.backend # NoBackend =>
        IF exchange.endpoint = "get_root"
        THEN exchange.backend.session = ctx_session_name(exchange.identifier)
        ELSE exchange.backend.session = NoneStr
C18_Witness ==
    /\ exchange.endpoint = "get_root"
    /\ exchange.backend.session = "alice"
    /\ exchange.status = 200

\* C19: the answer to GET /start_session/<identifier> sets the routing
\* cookie to that identifier and redirects to the root-document endpoint; no
\* other endpoint sets the cookie, and the cookie changes in no other way.
C19_OnlyStartSessionSetsCookie ==
    [][/\ exchange'.endpoint = "start_session"
          => /\ \E i \in GatewayUsers \cup {Stranger} :
                   /\ exchange'.path = "/start_session/" \o i
                   /\ exchange'.set_cookie = i
                   /\ cookies' = i
             /\ exchange'.status = 302
             /\ \E route \in Routes :
                   /\ route.endpoint = "get_root"
                   /\ exchange'.location = reverse_proxy_path \o route.path
       /\ exchange'.endpoint # "start_session"
          => exchange'.set_cookie = NoneStr /\ cookies' = cookies
      ]_vars
C19_Witness ==
    /\ exchange.endpoint = "start_session"
    /\ exchange.identifier = "alice"
    /\ cookies = "bob"


\* the ports a range object yields
Members(r) ==
    {x \in PortValues :
        \E k \in 0 .. (MaxPort + 1) :
            /\ x = r.start + k * r.step
            /\ IF r.step > 0 THEN x < r.stop ELSE x > r.stop}

\* C20: for integers a > 0 and b > a+1, validate_port_range((a, b)) and
\* validate_port_range([a, b]) return the half-open range [a, b), and a
\* range object with a positive start and at least two ports is returned
\* unchanged.
C20_ValidRangeReturned ==
    validated # NoArg =>
        LET arg == port_range_arg
            items == arg.items
        IN
        /\ (/\ arg.kind \in {"tuple", "list"}
            /\ Len(items) = 2
            /\ items[1] > 0
            /\ items[2] > items[1] + 1)
              => /\ validated.kind = "range"
                 /\ validated.start = items[1]
                 /\ validated.stop = items[2]
                 /\ Members(validated) = items[1] .. (items[2] - 1)
        /\ (/\ arg.kind = "range"
            /\ arg.start > 0
            /\ Cardinality(Members(arg)) > 1)
              => validated = arg
C20_Witness ==
    /\ port_range_arg.kind = "tuple"
    /\ port_range_arg.items = <<1, 3>>
    /\ validated.kind = "range"
    /\ Members(validated) = {1, 2}

\* the first port of the range an argument stands for
FirstPort(arg) == IF arg.kind = "range" THEN arg.start ELSE arg.items[1]
\* the argument as the range it stands for: a two-item sequence is (start, stop)
AsRange(arg) ==
    IF arg.kind = "range" THEN arg ELSE PyRange(arg.items[1], arg.items[2], 1)

\* C21: validate_port_range fails for every invalid range: a sequence whose
\* length is not 2, a range that is reversed or zero-width or holds fewer
\* than two ports, and a range whose start is <= 0, given as two integers or
\* as a range object.
C21_InvalidRangeFails ==
    validated # NoArg =>
        LET arg == port_range_arg IN
        (\/ arg.kind \in {"tuple", "list"} /\ Len(arg.items) # 2
         \/ /\ arg.kind = "range" \/ Len(arg.items) = 2
            /\ \/ Cardinality(Members(AsRange(arg))) < 2
               \/ FirstPort(arg) <= 0)
            => validated = InvalidPortRange

\* a key is given with a value
IsGiven(data, key) == ~IsNone(data, key)
RecipeFields == {"recipe", "recipe_args", "recipe_kwargs"}

\* C22: parse_command fails whenever its input carries both a literal
\* command and a recipe field (recipe, recipe_args or recipe_kwargs); it
\* returns no command for such an input.
C22_BothShapesRejected ==
    (/\ result.done
     /\ call.fn = "parse_command"
     /\ IsGiven(call.data, "command")
     /\ \E key \in RecipeFields : IsGiven(call.data, key))
        => result.err # "none"

\* the text of a value: str(v)
ValueText(kw) ==
    IF kw.kind = "bool" THEN (IF kw.flag THEN "True" ELSE "False") ELSE kw.text

\* " <pos1> <pos2> ..."
RECURSIVE Positional(_)
Positional(args) ==
    IF args = << >> THEN "" ELSE " " \o Head(args) \o Positional(Tail(args))

\* " --<key1> <val1> --<key2> ...": a true boolean gives the bare flag
RECURSIVE Keywords(_)
Keywords(kws) ==
    IF kws = << >> THEN ""
    ELSE LET kw == Head(kws) IN
         " --" \o kw.word
             \o (IF kw.kind = "bool" /\ kw.flag THEN "" ELSE " " \o ValueText(kw))
             \o Keywords(Tail(kws))

\* C23: parse_command returns a literal command verbatim; for a recipe it
\* returns the recipe name, the positional args in order, then for each
\* keyword in order the key with exactly one leading "--" followed by its
\* value, a true boolean giving the bare flag; a key given with or without
\* the leading "--" gives the same command.
C23_CommandBuilt ==
    (result.done /\ call.fn = "parse_command") =>
        LET data == call.data IN
        /\ (/\ IsGiven(data, "command")
            /\ \A key \in RecipeFields : ~HasKey(data, key))
              => result.err = "none" /\ result.command = data.command
        /\ (/\ ~HasKey(data, "command")
            /\ IsGiven(data, "recipe")
            /\ TruthyItems(data.recipe_args) \/ TruthyItems(data.recipe_kwargs))
              => /\ result.err = "none"
                 /\ result.command =
                       data.recipe \o Positional(data.recipe_args.items)
                                   \o Keywords(data.recipe_kwargs.items)

\* a template file that is well formed: a mapping with a name and exactly
\* one shape, a literal command or a recipe with args
ValidTemplate(file) ==
    /\ file.kind = "mapping"
    /\ IsGiven(file.data, "name")
    /\ \/ /\ IsGiven(file.data, "command")
          /\ \A key \in RecipeFields : ~HasKey(file.data, key)
       \/ /\ ~HasKey(file.data, "command")
          /\ IsGiven(file.data, "recipe")
          /\ \/ TruthyItems(file.data.recipe_args)
             \/ TruthyItems(file.data.recipe_kwargs)

\* C24: load_prebaked_projects never aborts because of one bad file: every
\* malformed or ambiguous template file is skipped and the templates of all
\* the valid files are returned.
C24_BadFilesSkipped ==
    (result.done /\ call.fn = "load_prebaked_projects") =>
        /\ result.err = "none"
        /\ DOMAIN result.prebaked =
              {call.files[i].data.name :
                  i \in {j \in DOMAIN call.files : ValidTemplate(call.files[j])}}

\* the two shapes, "present" read as the key being in the mapping
CommandShapeByKey(data) ==
    HasKey(data, "command") /\ \A key \in RecipeFields : ~HasKey(data, key)
RecipeShapeByKey(data) == HasKey(data, "recipe") /\ ~HasKey(data, "command")
\* the two shapes, "present" read as the key having a value
CommandShapeByValue(data) ==
    IsGiven(data, "command") /\ \A key \in RecipeFields : ~IsGiven(data, key)
RecipeShapeByValue(data) == IsGiven(data, "recipe") /\ ~IsGiven(data, "command")

\* C25: ensure_unambiguity returns the template exactly when it has a name
\* field (for prebaked data) and exactly one of the two shapes is present, a
\* literal command with no recipe field or a recipe with no command, and
\* None for every other mapping. A field is present when its key is in the
\* mapping, or when it has a value: the answer agrees with one of the two
\* readings, and with both where they agree.
C25_AcceptedIffOneShape ==
    (result.done /\ call.fn = "ensure_unambiguity") =>
        LET data == call.data
            named == call.is_prebaked_data => HasKey(data, "name")
            by_key == named /\ (CommandShapeByKey(data) \/ RecipeShapeByKey(data))
            by_value ==
                named /\ (CommandShapeByValue(data) \/ RecipeShapeByValue(data))
        IN
        /\ result.err = "none"
        /\ result.accepted => (by_key \/ by_value) /\ result.data = data
        /\ ~result.accepted => ~(by_key /\ by_value)

\* none of command, prebaked and recipe is given, or more than one of them
Malformed(req) ==
    Cardinality({k \in {"command", "prebaked", "recipe"} : req[k] # NoneStr}) # 1

\* C26: spin called with a malformed command specification (none of
\* command, prebaked or recipe given, or more than one of them) is rejected
\* before any port is allocated, any process is started or any record is
\* written.
C26_MalformedSpecRejected ==
    [][\A i \in LaunchUsers, req \in Requests, u \in BOOLEAN :
          (LaunchCall(i, req, u) /\ Malformed(req))
             => /\ spun'.done /\ spun'.err # "none"
                /\ pc' = pc
                /\ UNCHANGED <<available_ports, procs, registry>>
      ]_vars

\* C27: already_has_instance(identifier) is true exactly when the registry
\* holds a record with that identifier, for every identifier a record can
\* carry, the empty string included.
C27_HasInstanceIffRecord ==
    \A i \in LaunchUsers : already_has_instance(i) <=> HasRecord(i)

\* the random part of a uniquified session name
Tokens == {"r"}

\* C28: spin with uniquify false returns the identifier as session name;
\* with uniquify true it returns a session name that is the identifier, "-"
\* and a token, different from the identifier; the session name returned is
\* the one of the registry record and the one the worker is restricted to.
C28_SessionNameReturned ==
    [][(LaunchRegister /\ spun'.err = "none") =>
          /\ IF spun'.uniquify
             THEN /\ \E t \in Tokens :
                        spun'.session_name = spun'.identifier \o "-" \o t
                  /\ spun'.session_name # spun'.identifier
             ELSE spun'.session_name = spun'.identifier
          /\ \E r \in registry' \ registry :
                /\ r.identifier = spun'.identifier
                /\ r.session_name = spun'.session_name
                /\ served'[r.pid].allowed_sessions = spun'.session_name
      ]_vars

(***************************************************************************)
(* cleanup_running_processes statement by statement, and the two places    *)
(* that shut the registry down: catch_signal and __del__                   *)
(***************************************************************************)
\* who called cleanup_running_processes
Sweepers == {"call", "catch_signal", "__del__"}

\* records = find_process_from_registry(allow_unsafe, **sel) has returned:
\* the for loop is about to start
Found(by, sel, allow_unsafe) ==
    [at |-> "terminate", by |-> by, sel |-> sel, allow_unsafe |-> allow_unsafe,
     records |-> find_process_from_registry(registry, sel, allow_unsafe),
     todo |-> find_process_from_registry(registry, sel, allow_unsafe)]

\* one more entry in what the shutdown has done
Did(sd, at, what) == [sd EXCEPT !.at = at, !.trace = Append(@, what)]

\* an exception leaves catch_signal into whatever the main thread was doing,
\* and leaves __del__ into the interpreter, which ignores it
ShutdownRaised(sd) ==
    IF sd.by = "none" THEN sd ELSE [sd EXCEPT !.at = "raised"]

\* the main thread is in none of spin, cleanup_running_processes, catch_signal
AtRest == Idle /\ sweep.at = "idle" /\ shutdown.by = "none"

\* spin in the supervisor
ShutdownSpin ==
    /\ AtRest \/ (~Idle /\ sweep.at = "idle" /\ shutdown.by = "none")
    /\ \/ \E i \in Users : Idle /\ SweepSpinCall(i)
       \/ SweepSpinStep
       \/ SweepSpinRegister

\* cleanup_running_processes(allow_unsafe, **sel), called by the program:
\* the call of find_process_from_registry
SweepFind(sel, allow_unsafe) ==
    /\ Supervising /\ AtRest
    /\ IF find_error(sel, allow_unsafe) # "none"
       THEN /\ ret' = Returned("cleanup", sel, allow_unsafe,
                               find_error(sel, allow_unsafe), 0)
            /\ UNCHANGED sweep
       ELSE /\ sweep' = Found("call", sel, allow_unsafe)
            /\ ret' = NoRet
    /\ UNCHANGED <<progeny_vars, now, born, supervisor, configured, next_sweep>>
    /\ UNCHANGED <<shutdown, db_file>>
    /\ UNCHANGED <<gateway_vars, range_vars, adapter_vars, launch_vars, timer_vars>>

\* one turn of the for loop: terminate_target_process(record["pid"]), that is
\* os.kill(pid, SIGTERM) and time.sleep(1); rows come in no stated order.
\* os.kill raises ProcessLookupError when no process has the pid: the call of
\* cleanup_running_processes ends there
SweepTerminate ==
    /\ sweep.at = "terminate"
    /\ \E r \in sweep.todo :
          IF procs[r.pid].state = "none"
          THEN /\ sweep' = [sweep EXCEPT !.at = "raised"]
               /\ ret' = Returned("cleanup", sweep.sel, sweep.allow_unsafe,
                                  "ProcessLookupError", 0)
               /\ shutdown' = ShutdownRaised(shutdown)
               /\ UNCHANGED procs
          ELSE /\ procs' = Signalled(procs, {r.pid})
               /\ sweep' = [sweep EXCEPT !.todo = @ \ {r}]
               /\ UNCHANGED <<ret, shutdown>>
    /\ UNCHANGED <<registry, available_ports, listeners, pc, loc, lastAlloc>>
    /\ UNCHANGED <<now, born, supervisor, configured, next_sweep, db_file>>
    /\ UNCHANGED <<gateway_vars, range_vars, adapter_vars, launch_vars, timer_vars>>

\* the for loop has gone through every record
loop_over_at_once(sw) == TRUE
loop_over(sw) == sw.todo = {}

\* delete_process_from_registry(allow_unsafe, **sel), after the loop
SweepDelete ==
    /\ sweep.at = "terminate"
    /\ loop_over(sweep)
    /\ registry' = delete_process_from_registry(registry, sweep.sel,
                                                 sweep.allow_unsafe)
    /\ born' = Forget(registry')
    /\ sweep' = [sweep EXCEPT !.at = "update"]
    /\ UNCHANGED <<available_ports, listeners, procs, pc, loc, lastAlloc>>
    /\ UNCHANGED <<now, supervisor, configured, next_sweep, ret>>
    /\ UNCHANGED <<shutdown, db_file>>
    /\ UNCHANGED <<gateway_vars, range_vars, adapter_vars, launch_vars, timer_vars>>

\* port_manager.update_available_ports() and return len(records)
SweepUpdate ==
    /\ sweep.at = "update"
    /\ available_ports' = FreshAvailable
    /\ lastAlloc' = NoAlloc
    /\ ret' = Returned("cleanup", sweep.sel, sweep.allow_unsafe, "none",
                       Cardinality(sweep.records))
    /\ sweep' = [sweep EXCEPT !.at = IF sweep.by = "call" THEN "idle"
                                     ELSE "returned"]
    /\ shutdown' = IF sweep.by = "call" THEN shutdown
                   ELSE [shutdown EXCEPT !.at = "swept"]
    /\ UNCHANGED <<registry, listeners, procs, pc, loc>>
    /\ UNCHANGED <<now, born, supervisor, configured, next_sweep, db_file>>
    /\ UNCHANGED <<gateway_vars, range_vars, adapter_vars, launch_vars, timer_vars>>

\* the program goes on after a call that returned or raised
SweepForget ==
    /\ sweep.by = "call"
    /\ sweep.at \in {"idle", "raised"}
    /\ sweep # NoSweep
    /\ sweep' = NoSweep
    /\ UNCHANGED <<progeny_vars, sweep_vars, shutdown, db_file>>
    /\ UNCHANGED <<gateway_vars, range_vars, adapter_vars, launch_vars, timer_vars>>

\* current_timer.cancel(): the timer last started, if it has not fired yet
Cancelled(t) == [t EXCEPT !.pending = IF @ > 0 THEN @ - 1 ELSE 0]

\* SIGTERM, SIGINT or SIGQUIT reaches the supervisor, whatever the main
\* thread is doing: catch_signal starts; what was under way is not resumed.
\* if self.scheduled_stopper: scheduled_stopper.set(); current_timer.cancel()
CatchSignal ==
    /\ Supervising /\ configured
    /\ shutdown.by = "none"
    /\ shutdown' = [by |-> "catch_signal", at |-> "stopped",
                    trace |-> <<"stop">>]
    /\ next_sweep' = NoneInt
    /\ sweep' = NoSweep
    /\ pc' = [c \in Callers |-> "idle"]
    /\ loc' = [c \in Callers |-> NoLoc]
    /\ ret' = NoRet
    /\ UNCHANGED <<registry, available_ports, listeners, procs, lastAlloc>>
    /\ UNCHANGED <<now, born, supervisor, configured, db_file>>
    /\ timer' = Cancelled(timer)
    /\ UNCHANGED <<gateway_vars, range_vars, adapter_vars, launch_vars>>

\* the program ends by itself, or by a signal no handler was installed for
ProgramEnds ==
    /\ Supervising /\ AtRest
    /\ supervisor' = "exited"
    /\ UNCHANGED <<progeny_vars, now, born, configured, next_sweep, ret>>
    /\ UNCHANGED shutdown_vars
    /\ UNCHANGED <<gateway_vars, range_vars, adapter_vars, launch_vars, timer_vars>>

\* an exception left catch_signal: the program may end on it
RaisedEnds ==
    /\ Supervising
    /\ shutdown.by = "catch_signal" /\ shutdown.at = "raised"
    /\ supervisor' = "exited"
    /\ UNCHANGED <<progeny_vars, now, born, configured, next_sweep, ret>>
    /\ UNCHANGED shutdown_vars
    /\ UNCHANGED <<gateway_vars, range_vars, adapter_vars, launch_vars, timer_vars>>

\* __del__, when the interpreter lets go of the registry at its exit: it may
\* or may not run. if self.scheduled_stopper: set() and cancel()
Del ==
    /\ supervisor = "exited"
    /\ shutdown.by # "__del__"
    /\ shutdown' = [by |-> "__del__", at |-> "stopped",
                    trace |-> IF configured THEN Append(shutdown.trace, "stop")
                              ELSE shutdown.trace]
    /\ next_sweep' = NoneInt
    /\ sweep' = NoSweep
    /\ UNCHANGED <<progeny_vars, now, born, supervisor, configured, ret, db_file>>
    /\ timer' = IF configured THEN Cancelled(timer) ELSE timer
    /\ UNCHANGED <<gateway_vars, range_vars, adapter_vars, launch_vars>>

\* self.cleanup_running_processes(allow_unsafe=True) in catch_signal and in
\* __del__: the call of find_process_from_registry
ShutdownSweep ==
    /\ shutdown.at = "stopped"
    /\ sweep' = Found(shutdown.by, NoSelector, TRUE)
    /\ shutdown' = Did(shutdown, "sweeping", "sweep")
    /\ UNCHANGED <<progeny_vars, sweep_vars, db_file>>
    /\ UNCHANGED <<gateway_vars, range_vars, adapter_vars, launch_vars, timer_vars>>

\* os.remove(self.db_name); FileNotFoundError without the file
ShutdownRemove ==
    /\ shutdown.at = "swept"
    /\ IF db_file
       THEN /\ db_file' = FALSE
            /\ shutdown' = Did(shutdown, "removed", "remove")
       ELSE /\ shutdown' = ShutdownRaised(shutdown)
            /\ UNCHANGED db_file
    /\ UNCHANGED <<progeny_vars, sweep_vars, sweep>>
    /\ UNCHANGED <<gateway_vars, range_vars, adapter_vars, launch_vars, timer_vars>>

\* exit(1), the last statement of catch_signal
ShutdownExit ==
    /\ shutdown.by = "catch_signal" /\ shutdown.at = "removed"
    /\ supervisor' = "exited"
    /\ shutdown' = Did(shutdown, "exited", "exit")
    /\ UNCHANGED <<progeny_vars, now, born, configured, next_sweep, ret>>
    /\ UNCHANGED <<sweep, db_file>>
    /\ UNCHANGED <<gateway_vars, range_vars, adapter_vars, launch_vars, timer_vars>>

\* ProcessRegistry(port_manager, interval, timeout) on the empty table, with
\* or without timer and signal handlers
TimerInit == timer = [NoTimer EXCEPT !.pending = IF configured THEN 1 ELSE 0]

InitShutdown ==
    /\ ProgenyInit /\ SweepInit /\ GatewayOff
    /\ RangeOff /\ AdapterOff /\ LaunchOff /\ ShutdownOff /\ TimerInit
    /\ \A p \in PortRange : listeners[p] = Nobody

NextShutdown ==
    \/ ShutdownSpin
    \/ \E sel \in CallSelectors, u \in BOOLEAN : SweepFind(sel, u)
    \/ SweepTerminate
    \/ SweepDelete
    \/ SweepUpdate
    \/ SweepForget
    \/ CatchSignal
    \/ ProgramEnds
    \/ RaisedEnds
    \/ Del
    \/ ShutdownSweep
    \/ ShutdownRemove
    \/ ShutdownExit
    \/ UNCHANGED ext_vars /\ Workers

SpecShutdown == InitShutdown /\ [][NextShutdown]_vars

\* C29: cleanup_running_processes sends the termination signal to the process
\* of every matched record before it deletes any matched record: while a call
\* is in its loop or has stopped in it, every matched record whose process
\* has not been signalled yet is still in the registry; a record leaves the
\* registry during a call only when the loop is over, is one of the matched
\* records, and none of the matched processes is left unsignalled; and when
\* a signal handler takes over from a call in its loop, the records of the
\* processes not yet signalled are still there
C29_SignalBeforeDelete ==
    [][/\ sweep.at \in {"terminate", "raised"} => sweep.todo \subseteq registry
       /\ (sweep.at # "idle" /\ registry' # registry)
             => /\ sweep.todo = {}
                /\ registry \ registry' \subseteq sweep.records
                /\ \A r \in sweep.records : procs[r.pid].state # "alive"
       /\ (sweep.at = "terminate" /\ sweep'.at # "terminate")
             => sweep.todo \subseteq registry'
      ]_vars

\* a call that stopped in its loop at a pid without process, with a matched
\* process still running and not signalled
C29_StoppedPartWay ==
    /\ sweep.at = "raised"
    /\ \E r \in sweep.todo : procs[r.pid].state = "alive" /\ r \in registry

\* the statements of catch_signal, in the order they are written
HandlerOrder == <<"stop", "sweep", "remove", "exit">>
IsPrefix(s, t) == Len(s) <= Len(t) /\ \A k \in 1 .. Len(s) : s[k] = t[k]

\* C30: the shutdown handler sets the stop flag and cancels the timer, then
\* runs one full sweep, then removes the persisted registry, then exits; no
\* full sweep is started once the persisted registry has been removed
C30_SweepThenRemove ==
    /\ shutdown.by = "catch_signal" => IsPrefix(shutdown.trace, HandlerOrder)
    /\ \A j, k \in 1 .. Len(shutdown.trace) :
          (shutdown.trace[j] = "remove" /\ shutdown.trace[k] = "sweep") => k < j

\* the ports of the range no listener has bound and no record of table `rows`
\* holds, with the listeners `ls`
FreeOf(ls, rows) ==
    {p \in PortRange : ls[p] = Nobody /\ \A r \in rows : r.port # p}

\* C32: after every register_process that wrote a record and every
\* cleanup_running_processes that returned, the available-port set is exactly
\* the ports of the range that no listener has bound and no record holds
C32_AvailableIsFree ==
    [][(\/ registry \subseteq registry' /\ registry' # registry
        \/ \E sel \in Selectors, u \in BOOLEAN :
              /\ Idle /\ cleanup_error(sel, u) = "none"
              /\ CleanupRunningProcesses(sel, u))
          => available_ports' = FreeOf(listeners', registry')
      ]_vars

\* C33: a record is written only for a process that is alive when it is
\* written, whether register_process got a process object (spin) or a bare
\* pid: every record that enters the registry names the pid of a live process
C33_RegisteredAlive ==
    [][\A r \in registry' \ registry :
          procs[r.pid].state \in {"alive", "signalled"}
      ]_vars

\* the records of table `rows` with this identifier
RecordsOf(rows, identifier) == {r \in rows : r.identifier = identifier}

\* C34: no operation changes an existing record: from one state to the next
\* the records of an identifier that has one are the same, or are gone; the
\* session_name, port, pid and expiry_timestamp of a record never change while
\* the identifier has a record
C34_RecordsImmutable ==
    [][\A i \in Identifiers :
          RecordsOf(registry, i) # {}
             => \/ RecordsOf(registry', i) = RecordsOf(registry, i)
                \/ RecordsOf(registry', i) = {}
      ]_vars

\* two records, one of them of a worker that has ended since: the record has
\* outlived registrations, deletions and its own process
C34_RecordOutlivesWorker ==
    /\ Cardinality(registry) = 2
    /\ \E r \in registry : procs[r.pid].state = "none"
    /\ \E r \in registry : procs[r.pid].state = "signalled"

(***************************************************************************)
(* find_process_from_registry with selectors of several fields             *)
(***************************************************************************)
\* the selectors of the calls: identifier, port and pid, each omitted (None)
\* or given with a value, joined by OR (the default) or AND
MultiSelectors ==
    {[NoSelector EXCEPT !.identifier = i, !.port = p, !.pid = q, !.operator = o] :
        i \in {NoneStr, "", "alice"}, p \in {NoneInt} \cup PortRange,
        q \in {NoneInt, 1}, o \in {"OR", "AND"}}

\* spin calls and find_process_from_registry(**sel) calls, one at a time
NextSelect ==
    \/ \E i \in Users : SweepSpinCall(i)
    \/ SweepSpinStep
    \/ SweepSpinRegister
    \/ \E sel \in MultiSelectors : FindCall(sel, FALSE)
    \/ UNCHANGED ext_vars /\ Workers

SpecSelect == InitCalls /\ [][NextSelect]_vars

\* the fields a call gives with a value: those that are not None
GivenFields(sel) ==
    {k \in {"identifier", "session_name"} : sel[k] # NoneStr}
    \cup {k \in {"port", "pid"} : sel[k] # NoneInt}

\* the match as stated: at least one of the given fields, or all of them
Matches(r, sel) ==
    IF sel.operator = "AND"
    THEN \A k \in GivenFields(sel) : r[k] = sel[k]
    ELSE \E k \in GivenFields(sel) : r[k] = sel[k]

\* C35: a selector of several fields matches the records that satisfy at
\* least one of the fields given with a value, and with operator AND those
\* that satisfy all of them; fields that are None take no part, every field
\* given with a value does: find_process_from_registry with at least one
\* field given returns exactly the matching records
C35_SelectorMatch ==
    [][\A sel \in MultiSelectors :
          (GivenFields(sel) # {} /\ FindCall(sel, FALSE))
             => /\ ret'.err = "none"
                /\ find_process_from_registry(registry, sel, FALSE)
                      = {r \in registry : Matches(r, sel)}
                /\ ret'.count = Cardinality({r \in registry : Matches(r, sel)})
      ]_vars

\* C36: after delete_process_from_registry or cleanup_running_processes with
\* a selector that gives identifier, session_name, port or pid, no record
\* that matches the selector is left, every record that does not match is
\* there as it was, and cleanup_running_processes returns the number of
\* records that matched
C36_MatchedRemoved ==
    [][\A sel \in CallSelectors, u \in BOOLEAN :
          GivenFields(sel) # {}
             => /\ (DeleteCall(sel, u) \/ CleanupCall(sel, u))
                      => registry' = {r \in registry : ~Matches(r, sel)}
                /\ CleanupCall(sel, u)
                      => /\ ret'.err = "none"
                         /\ ret'.count =
                               Cardinality({r \in registry : Matches(r, sel)})
      ]_vars

\* C37: whenever spin raises, no worker started by that call is left running
\* without a record: when a call that has started its worker ends without
\* having written the record, that worker does not run any more
C37_NoOrphanWorker ==
    [][\A c \in Callers :
          (pc[c] = "register" /\ pc'[c] = "idle" /\ registry' = registry)
             => procs'[loc[c].pid].state \notin {"alive", "signalled"}
      ]_vars

(***************************************************************************)
(* scheduled_cleaning in its Timer thread, next to the main thread         *)
(***************************************************************************)
\* self.scheduled_stopper.is_set()
stopper_is_set == configured /\ shutdown.by # "none"

\* the interval of a pending timer is over: its thread starts
\* scheduled_cleaning(interval, timeout). The thread is no daemon: the
\* interpreter waits for it at exit
TimerFires ==
    /\ timer.at = "none"
    /\ timer.pending > 0
    /\ timer' = [at |-> "cleaning", pending |-> timer.pending - 1]
    /\ next_sweep' = NoneInt
    /\ UNCHANGED <<progeny_vars, now, born, supervisor, configured, ret>>
    /\ UNCHANGED <<gateway_vars, range_vars, adapter_vars, launch_vars,
                   shutdown_vars>>

\* self.cleanup_running_processes(timeout=timeout)
TimerCleans ==
    /\ timer.at = "cleaning"
    /\ CleanupRunningProcesses(ScheduledSelector, FALSE)
    /\ born' = Forget(registry')
    /\ timer' = [timer EXCEPT !.at = "checking"]
    /\ UNCHANGED <<now, supervisor, configured, next_sweep, ret>>
    /\ UNCHANGED <<gateway_vars, range_vars, adapter_vars, launch_vars,
                   shutdown_vars>>

\* if not self.scheduled_stopper.is_set():
TimerChecks ==
    /\ timer.at = "checking"
    /\ timer' = [timer EXCEPT !.at = IF stopper_is_set THEN "none"
                                      ELSE "arming"]
    /\ UNCHANGED <<progeny_vars, sweep_vars>>
    /\ UNCHANGED <<gateway_vars, range_vars, adapter_vars, launch_vars,
                   shutdown_vars>>

\* self.current_timer = threading.Timer(interval, ...); current_timer.start()
TimerArms ==
    /\ timer.at = "arming"
    /\ timer' = [at |-> "none", pending |-> timer.pending + 1]
    /\ next_sweep' = now + Interval
    /\ UNCHANGED <<progeny_vars, now, born, supervisor, configured, ret>>
    /\ UNCHANGED <<gateway_vars, range_vars, adapter_vars, launch_vars,
                   shutdown_vars>>

InitTimer == InitShutdown

\* the main thread spins workers and may catch a signal; the timer threads
\* run scheduled_cleaning; the time a timer waits is left open
NextTimer ==
    \/ ShutdownSpin
    \/ TimerFires
    \/ TimerCleans
    \/ TimerChecks
    \/ TimerArms
    \/ CatchSignal
    \/ ShutdownSweep
    \/ SweepTerminate
    \/ SweepDelete
    \/ SweepUpdate
    \/ ShutdownRemove
    \/ ShutdownExit
    \/ UNCHANGED ext_vars /\ Workers

SpecTimer == InitTimer /\ [][NextTimer]_vars

\* C31: a shutdown signal while a scheduled sweep is in flight is handled
\* safely: once the handler has set the stop flag and cancelled the timer, no
\* timer is pending, no timer is armed, and no scheduled sweep starts
C31_NothingAfterStop ==
    [][stopper_is_set'
          => /\ timer'.pending = 0
             /\ next_sweep' = NoneInt
             /\ ~TimerArms
             /\ ~TimerFires
      ]_vars

\* C38: at most one sweep timer is pending at any time; a timer is armed only
\* by a scheduled sweep that has finished, and only while the stop flag is not
\* set; without interval and timeout no timer is ever armed or pending
C38_OneTimer ==
    [][/\ timer'.pending <= 1
       /\ ~configured => timer'.pending = 0 /\ next_sweep' = NoneInt
       /\ timer'.pending > timer.pending
             => /\ timer.at = "arming"
                /\ ~stopper_is_set
      ]_vars

(***************************************************************************)
(* cli_serve.run from its first statement: parse_config, then the gateway  *)
(***************************************************************************)
\* parse_config as it would be without the two assertions on
\* config["progeny"]
parse_config_refuses_nothing(cleaning) == FALSE

\* parse_config: NotImplementedError when config["progeny"] gives
\* scheduled_cleaning_interval or scheduled_cleaning_timeout
parse_config_refuses(cleaning) == cleaning

\* config = parse_config(args["<config>"]); progenitor = Progeny(
\* **config["progeny"]); app.ctx.instances = {}. `configured`: the file gives
\* an interval and a timeout, which Progeny hands to its ProcessRegistry
ParseConfig ==
    /\ phase = "starting"
    /\ phase' = IF parse_config_refuses(configured) THEN "refused"
                ELSE "provisioning"
    /\ UNCHANGED <<instances, cookies, exchange>>
    /\ UNCHANGED <<progeny_vars, sweep_vars, call_vars>>

\* the program is started; no progeny-processes.db is left from an earlier run
InitRun ==
    /\ ProgenyInit /\ CallsOff
    /\ \A p \in PortRange : listeners[p] = Nobody
    /\ now = 0
    /\ born = [i \in Identifiers |-> NoneInt]
    /\ supervisor = "running"
    /\ configured \in BOOLEAN
    /\ next_sweep = NoneInt
    /\ ret = NoRet
    /\ phase = "starting"
    /\ instances = << >>
    /\ cookies = NoneStr
    /\ exchange = NoExchange

NextRun ==
    \/ ParseConfig
    \/ \E i \in GatewayUsers, u \in BOOLEAN : RunSpinCall(i, u)
    \/ RunSpinStep
    \/ RunSpinRegister
    \/ RunServe
    \/ \E route \in Routes : GatewayRequest(route)
    \/ \E i \in GatewayUsers \cup {Stranger} : StartSession(i)
    \/ UNCHANGED ext_vars /\ Workers

SpecRun == InitRun /\ [][NextRun]_vars

=============================================================================
